---- MODULE Spec2Model ----
(***************************************************************************)
(* A model of the Build HAT host library (python-build-hat):               *)
(*   buildhat/serinterface.py  the serial engine: reader loop, callback    *)
(*                             dispatch worker, ownership table, shutdown  *)
(*   buildhat/devices.py       device construction, release, get()         *)
(*   buildhat/motors.py        ramp and pulse commands                     *)
(*   buildhat/hat.py           get_vin()                                   *)
(*                                                                         *)
(* Threads are modelled at the granularity of the statements that touch    *)
(* shared state.  One iteration of BuildHAT.loop is one action, taking the *)
(* line it read as input.  A line is a record [k, p, v]: its kind (which   *)
(* prefix test of the loop it satisfies), its port digit and its payload   *)
(* (hex digits of a type id, the tokens of a data line, a voltage).        *)
(***************************************************************************)
EXTENDS Integers, Sequences, FiniteSets, TLC

(***************************************************************************)
(* Program constants                                                       *)
(***************************************************************************)
NumPorts == 4
DEVICE_STARTUP_DELAY == 2
stalled_device_timeout == 6
ListingPorts == 4
MatrixTypeId == 64

(***************************************************************************)
(* Bounds of the model                                                     *)
(***************************************************************************)
MaxLines == 6       \* lines the serial link delivers in one run (read timeouts apart)
MaxEvents == 3      \* data lines the link delivers to the dispatch of callbacks
MaxReplies == 2     \* lines the link delivers while callers wait
MaxWirePort == 1    \* highest port digit that appears on the wire
NumCallers == 2     \* caller threads
MaxPending == 2     \* completions kept in one list

Ports == 0 .. (NumPorts - 1)
WirePorts == 0 .. MaxWirePort
Callers == 1 .. NumCallers

None == <<>>
Some(x) == <<x>>

\* no computation has been made yet
NoCalc == [op |-> "none", in |-> <<>>, out |-> <<>>]

\* the constructor has found the firmware at its first probe and has started
\* the two threads
Booted == [pc |-> "started", probes |-> 1, first |-> "FIRMWARE", state |-> "FIRMWARE",
           status |-> "NONE", age |-> 0, retries |-> 0, chatter |-> FALSE,
           resets |-> 0, loads |-> 0, prompts |-> 0, last |-> "firmware",
           written |-> 0, buf |-> <<>>, got |-> <<>>]

\* the queue of the motor commands made with blocking=False: nothing has
\* been put on it and the thread that serves it is waiting for a command
NoQueue == [q |-> <<>>, queued |-> 0, unfinished |-> 0, cur |-> None, completed |-> {}]

VARIABLES
  connections,          \* BuildHAT.connections: per port typeid, connected, callit, data
  used,                 \* BuildHAT._used: per port the owning device (None if free)
  running,              \* BuildHAT.running
  fin,                  \* BuildHAT.fin
  vin,                  \* BuildHAT.vin
  loopState,            \* the reader thread: "none", "running", "exited", "crashed"
  uselist,              \* loop(): uselist
  listing_status,       \* loop(): listing_status
  count,                \* loop(): count
  since_connecting,     \* loop(): time.time() - device_is_connecting (None: it is 0)
  since_started,        \* time.time() - time_when_started, saturating
  listNotified,         \* number of listcond.notify() calls so far
  timers,               \* Timer(8.0, runit) objects started and not yet fired
  cbqueue,              \* BuildHAT.cbqueue
  cbState,              \* the dispatch worker: "none", "top", "get", "exited", "crashed"
  cbAlive,              \* per port: the WeakMethod registered for it is alive
  invoked,              \* log of user callback invocations: [seq, by]
  nData,                \* data lines processed so far (numbers the events)
  enqueued,             \* the events the loop has put on a callback queue: [seq, cb]
  everStopped,          \* running has been cleared at least once
  rampftr,              \* per port the pending ramp completions
  pulseftr,             \* per port the pending pulse completions
  portftr,              \* per port the pending sample completions
  vinWaiters,           \* the threads inside vincond.wait(), in the order they came
  listWaiter,           \* a thread is inside listcond.wait()
  ctl,                  \* the thread that calls shutdown() or reset(): its position
  caller,               \* per caller thread: pc, op, port, done (its wait was satisfied)
  device,               \* per port the fields of the device object constructed on it
  writers,              \* threads inside self.ser.write(data)
  devUsed,              \* Device._used
  ctor,                 \* per caller thread: a Device.__init__ in flight
  owners,               \* device objects whose construction succeeded, and their port
  line,                 \* loop(): line, the line read last (kept where a property reads it)
  fed,                  \* the classes of the lines read so far
  inflight,             \* per port the samples the HAT has sent and the loop has not read yet
  calc,                 \* the last computation made: its name, arguments and results
  boot,                 \* BuildHAT.__init__: where the constructor is, and what its probes found
  motorqueue            \* BuildHAT.motorqueue of port A and the thread that serves it

loopVars == <<loopState, uselist, listing_status, count, since_connecting,
              since_started, listNotified, timers, line, fed>>
engineVars == <<connections, used, running, fin, vin, everStopped, listWaiter, ctl>>
cbVars == <<cbqueue, cbState, cbAlive, invoked, nData, enqueued>>
syncVars == <<rampftr, pulseftr, portftr, vinWaiters, caller, device>>
regVars == <<devUsed, ctor, owners>>
vars == <<loopVars, engineVars, cbVars, syncVars, regVars, writers, inflight, calc, boot, motorqueue>>

(***************************************************************************)
(* Lines on the wire                                                       *)
(***************************************************************************)
\* the kinds that pass the test line[0] == "P" and line[2] == ":"
StatusKinds == {"active", "passive", "connecting", "serialcomm", "disconnected",
                "checksumerr", "devtimeout", "notconnected", "rampdone", "pulsedone"}

Line(k, p, v) == [k |-> k, p |-> p, v |-> v]

\* type ids as the firmware prints them, in hexadecimal digits
\* 26 (38, a motor), 40 (64, the 3x3 matrix), 8 (a light, passive)
ActiveIds == {<<2, 6>>, <<4, 0>>}
PassiveIds == {<<8>>}

\* int(text, 16) of a string of hexadecimal digits
RECURSIVE HexVal(_)
HexVal(ds) ==
  IF ds = <<>> THEN 0 ELSE 16 * HexVal(SubSeq(ds, 1, Len(ds) - 1)) + ds[Len(ds)]

\* the tokens of a data line after line[5:].strip().split(" "): a token is
\* [dot, n], or [empty] for the empty string between two spaces
Tok(n) == [empty |-> FALSE, dot |-> FALSE, bad |-> FALSE, n |-> n]
FloatTok(n) == [empty |-> FALSE, dot |-> TRUE, bad |-> FALSE, n |-> n]
EmptyTok == [empty |-> TRUE, dot |-> FALSE, bad |-> FALSE, n |-> 0]
BadTok == [empty |-> FALSE, dot |-> FALSE, bad |-> TRUE, n |-> 0]

\* the loop's conversion of the tokens: floats and ints are kept, "" dropped
RECURSIVE ParseData(_)
ParseData(toks) ==
  IF toks = <<>> THEN <<>>
  ELSE IF toks[1].dot THEN <<toks[1].n>> \o ParseData(Tail(toks))
  ELSE IF ~toks[1].empty THEN <<toks[1].n>> \o ParseData(Tail(toks))
  ELSE ParseData(Tail(toks))

(***************************************************************************)
(* Connection (serinterface.py)                                            *)
(***************************************************************************)
Connection == [typeid |-> -1, connected |-> FALSE, callit |-> None, data |-> None]

\* a variant that marks every updated port connected
update_AlwaysConnected(conn, typeid, connected) ==
  [conn EXCEPT !.typeid = typeid, !.connected = TRUE, !.callit = None]

update(conn, typeid, connected) ==
  [conn EXCEPT !.typeid = typeid, !.connected = connected, !.callit = None]

LoopT == <<"loop">>
CbT == <<"cb">>
CallerT(t) == <<"caller", t>>

(***************************************************************************)
(* Pending completions.  A completion is [t, live]: the caller thread that *)
(* created it and whether that thread waits (or will wait) on it; a caller *)
(* that left with an exception after registering leaves a dead one behind. *)
(***************************************************************************)
Pending(t) == [t |-> t, live |-> TRUE]

\* the thread woken when the head of a list of completions is fulfilled
Woken(q) == IF q # <<>> /\ q[1].live THEN {q[1].t} ELSE {}

\* the list after its head is fulfilled
Fulfilled(q) == IF q = <<>> THEN q ELSE Tail(q)

\* the waiting callers of `ws` get their result
Wake(c, ws) == [t \in Callers |-> IF t \in ws THEN [c[t] EXCEPT !.done = TRUE] ELSE c[t]]

\* the completion of thread t in the list q is abandoned: nobody will wait on it
Abandon(q, t) == [i \in 1 .. Len(q) |-> IF q[i].t = t THEN [q[i] EXCEPT !.live = FALSE]
                                        ELSE q[i]]

(***************************************************************************)
(* BuildHAT.loop: one iteration on the line l                              *)
(***************************************************************************)
\* the port status messages that set typeid and connected (lines 487-532)
Connects(k) == k \in {"active", "passive"}
Disconnects(k) == k \in {"disconnected", "checksumerr", "devtimeout", "notconnected"}

\* a variant that does not count "no device detected"
Confirms_ConnectedOnly(k) == k \in {"active", "passive"}

\* the messages counted as a port confirmation during a listing
Confirms(k) == k \in {"active", "passive", "notconnected"}

\* the port table after the status part of the iteration
StatusUpdate(l) ==
  IF Connects(l.k)
    THEN [connections EXCEPT ![l.p] = update(@, HexVal(l.v), TRUE)]
  ELSE IF Disconnects(l.k)
    THEN [connections EXCEPT ![l.p] = update(@, -1, FALSE)]
  ELSE connections

\* the matrix is switched on from the loop when no device object owns the port
MatrixOn(l) == l.k = "active" /\ used[l.p] = None /\ HexVal(l.v) = MatrixTypeId

\* count after the status part
CountAfter(l) ==
  IF Confirms(l.k) /\ uselist /\ listing_status = "SENT" THEN count + 1 ELSE count

\* device_is_connecting after the status part and the baud preamble test
ConnectingAfter(l) ==
  IF l.k \in {"connecting", "baud"} THEN Some(0)
  ELSE IF l.k \in {"active", "serialcomm", "disconnected", "checksumerr", "devtimeout"}
    THEN None
  ELSE since_connecting

\* the stalled-device test at the end of the iteration
Unstalled(sc) == IF sc # None /\ sc[1] > stalled_device_timeout THEN None ELSE sc

\* a variant that takes either completion message for a ramp
RampPort_AnyDone(l) == IF l.k \in {"rampdone", "pulsedone"} THEN {l.p} ELSE {}

\* which list of completions a "ramp done" or "pulse done" line fulfils
RampPort(l) == IF l.k = "rampdone" THEN {l.p} ELSE {}
PulsePort(l) == IF l.k = "pulsedone" THEN {l.p} ELSE {}
DataPort(l) == IF l.k = "data" THEN {l.p} ELSE {}

\* the listing is complete when the banner came and 4 ports were confirmed
ListingDone(c) == c >= ListingPorts

\* an item of the callback queue: (callit, newdata), or the empty tuple
Event(cb, data, seq) == [empty |-> FALSE, cb |-> cb, data |-> data, seq |-> seq]
EmptyTuple == [empty |-> TRUE, cb |-> 0, data |-> <<>>, seq |-> 0]

\* a variant that calls the callback from the reader thread
DataCallback_Inline(l, conns) ==
  IF l.k = "data" /\ conns[l.p].callit # None
    THEN [put |-> <<>>,
          call |-> <<Event(conns[l.p].callit[1], ParseData(l.v), nData + 1)>>]
    ELSE [put |-> <<>>, call |-> <<>>]

\* what the data part of the iteration does with the registered callback: the
\* pair (callit, newdata) is put on the queue, no callback is called
DataCallback(l, conns) ==
  IF l.k = "data" /\ conns[l.p].callit # None
    THEN [put |-> <<Event(conns[l.p].callit[1], ParseData(l.v), nData + 1)>>,
          call |-> <<>>]
    ELSE [put |-> <<>>, call |-> <<>>]

\* a variant that does not wait for the start-up delay
StopLoop_NoDelay(sc, ls) ==
  /\ running = FALSE
  /\ sc = None
  /\ ls = "NONE"

\* the exit test of the iteration (lines 599-607)
StopLoop(sc, ls) ==
  /\ running = FALSE
  /\ sc = None
  /\ ls = "NONE"
  /\ since_started > DEVICE_STARTUP_DELAY

\* the class of a line, for the record of what was fed
\* "S" a port status line of the listing (connected to active, connected to
\* passive, no device detected), "F" the firmware banner, "O" any other
Class(l) ==
  IF l.k \in {"active", "passive", "notconnected"} THEN "S"
  ELSE IF l.k = "firmware" THEN "F"
  ELSE "O"

\* the iteration on a line that raises nothing
LoopBody(l) ==
  /\ LET conns == StatusUpdate(l)
         ls1 == IF listing_status = "SENT" /\ l.k = "firmware" THEN "FINISHED"
                ELSE listing_status
         cnt == CountAfter(l)
         complete == ls1 = "FINISHED" /\ uselist /\ ListingDone(cnt)
         crash == ls1 = "FINISHED" /\ ~uselist
         ls2 == IF complete THEN "NONE" ELSE ls1
         ul2 == IF complete THEN FALSE ELSE uselist
         sc == Unstalled(ConnectingAfter(l))
         dc == DataCallback(l, conns)
         wr == {t \in Callers : \E p \in RampPort(l) : t \in Woken(rampftr[p])}
         wp == {t \in Callers : \E p \in PulsePort(l) : t \in Woken(pulseftr[p])}
         wd == {t \in Callers : \E p \in DataPort(l) : t \in Woken(portftr[p])}
         wv == IF l.k = "vin" THEN Woken(vinWaiters) ELSE {}
     IN
       /\ fed' = IF l.k = "empty" THEN fed ELSE Append(fed, Class(l))
       /\ connections' = IF l.k = "data"
                           THEN [conns EXCEPT ![l.p].data = Some(ParseData(l.v))]
                           ELSE conns
       /\ count' = cnt
       /\ since_connecting' = sc
       /\ vin' = IF l.k = "vin" THEN Some(l.v) ELSE vin
       /\ writers' = IF MatrixOn(l) THEN writers \cup {LoopT} ELSE writers
       /\ rampftr' = [p \in Ports |-> IF p \in RampPort(l) THEN Fulfilled(rampftr[p])
                                      ELSE rampftr[p]]
       /\ pulseftr' = [p \in Ports |-> IF p \in PulsePort(l) THEN Fulfilled(pulseftr[p])
                                       ELSE pulseftr[p]]
       /\ portftr' = [p \in Ports |-> IF p \in DataPort(l) THEN Fulfilled(portftr[p])
                                      ELSE portftr[p]]
       /\ vinWaiters' = IF l.k = "vin" THEN Fulfilled(vinWaiters) ELSE vinWaiters
       /\ caller' = Wake(caller, wr \cup wp \cup wd \cup wv)
       /\ nData' = IF l.k = "data" THEN nData + 1 ELSE nData
       /\ cbqueue' = cbqueue \o dc.put
       /\ enqueued' = enqueued \o [i \in 1 .. Len(dc.put) |->
                                      [seq |-> dc.put[i].seq, cb |-> dc.put[i].cb]]
       /\ invoked' = invoked \o [i \in 1 .. Len(dc.call) |->
                                    [seq |-> dc.call[i].seq, by |-> "loop"]]
       /\ listing_status' = ls2
       /\ uselist' = ul2
       /\ listNotified' = IF complete THEN listNotified + 1 ELSE listNotified
       /\ listWaiter' = IF complete THEN FALSE ELSE listWaiter
       /\ timers' = IF ~ul2 /\ l.k = "done" /\ ~crash THEN timers + 1 ELSE timers
       /\ loopState' = IF crash THEN "crashed"
                       ELSE IF StopLoop(sc, ls2) THEN "exited"
                       ELSE "running"
       /\ UNCHANGED <<used, running, fin, everStopped, ctl, since_started, cbState,
                      cbAlive, device, regVars>>

\* the characters of a line as the loop reads them: a port character is a
\* digit 0..9 or NonDigit, a hexadecimal digit is 0..15 or NonHex
NonDigit == 10
NonHex == 16

\* int(text, 16) raises ValueError
BadHex(ds) == ds = <<>> \/ \E i \in 1 .. Len(ds) : ds[i] \notin 0 .. 15

\* int(d) or float(d) raises ValueError on a token of a data line
BadData(toks) == \E i \in 1 .. Len(toks) : toks[i].bad

\* the iteration on the line l raises (IndexError, ValueError): line[2] of a
\* line "P" or "P1", int(line[1]) of a non-digit, self._used[portid] or
\* self.connections[portid] of a port above 3, int(.., 16) of a type id,
\* int(d) and float(d) of a data token, float(..) of a voltage
Raises(l) ==
  \/ l.k = "short"
  \/ l.k \in StatusKinds \cup {"status", "data"} /\ l.p \notin Ports
  \/ l.k \in {"active", "passive", "serialcomm"} /\ BadHex(l.v)
  \/ l.k = "data" /\ BadData(l.v)
  \/ l.k = "badvin"

\* the iteration ends with the exception: the thread of the loop is gone
LoopRaise(l) ==
  /\ Raises(l)
  /\ loopState' = "crashed"
  /\ fed' = Append(fed, Class(l))
  /\ UNCHANGED <<uselist, listing_status, count, since_connecting, since_started,
                 listNotified, timers, engineVars, cbVars, syncVars, regVars, writers>>

LoopIter(l) ==
  /\ loopState = "running"
  /\ LoopT \notin writers
  /\ l.k = "empty" \/ Len(fed) < MaxLines
  /\ IF Raises(l) THEN LoopRaise(l) ELSE LoopBody(l)

\* self.ser.write of the matrix "on" command returns
LoopWriteEnd ==
  /\ LoopT \in writers
  /\ writers' = writers \ {LoopT}
  /\ UNCHANGED <<loopVars, engineVars, cbVars, syncVars, regVars, inflight, calc, boot, motorqueue>>

\* the Timer started on "Done initialising ports" fires: runit()
TimerFire ==
  /\ timers > 0
  /\ timers' = timers - 1
  /\ listNotified' = listNotified + 1
  /\ listWaiter' = FALSE
  /\ UNCHANGED <<loopState, uselist, listing_status, count, since_connecting,
                 since_started, line, fed, connections, used, running, fin, vin,
                 everStopped, ctl, cbVars, syncVars, regVars, writers, inflight, calc, boot, motorqueue>>

(***************************************************************************)
(* BuildHAT.callbackloop: the dispatch worker                              *)
(***************************************************************************)
\* a variant of q.get() that takes the newest item
Dequeue_Newest(q) ==
  [item |-> q[Len(q)], rest |-> SubSeq(q, 1, Len(q) - 1)]

\* q.get() on a queue.Queue: the oldest item
Dequeue(q) == [item |-> Head(q), rest |-> Tail(q)]

\* while self.running:
CbTop ==
  /\ cbState = "top"
  /\ cbState' = IF running THEN "get" ELSE "exited"
  /\ UNCHANGED <<cbqueue, cbAlive, invoked, nData, enqueued, loopVars, engineVars,
                 syncVars, regVars, writers, inflight, calc, boot, motorqueue>>

\* cb = q.get(); the empty tuple and a dead callback are skipped, a live
\* callback is called with the sample
CbGet ==
  /\ cbState = "get"
  /\ cbqueue # <<>>
  /\ LET d == Dequeue(cbqueue)
         cb == d.item
     IN /\ cbqueue' = d.rest
        /\ invoked' = IF ~cb.empty /\ cbAlive[cb.cb]
                        THEN Append(invoked, [seq |-> cb.seq, by |-> "cb"])
                        ELSE invoked
  /\ cbState' = "top"
  /\ UNCHANGED <<cbAlive, nData, enqueued, loopVars, engineVars, syncVars, regVars,
                 writers, inflight, calc, boot, motorqueue>>

(***************************************************************************)
(* Time                                                                    *)
(***************************************************************************)
Older(n, cap) == IF n > cap THEN n ELSE n + 1

Tick ==
  /\ since_started' = Older(since_started, DEVICE_STARTUP_DELAY)
  /\ since_connecting' = IF since_connecting = None THEN None
                         ELSE Some(Older(since_connecting[1], stalled_device_timeout))
  /\ UNCHANGED <<loopState, uselist, listing_status, count, listNotified, timers, line,
                 fed, engineVars, cbVars, syncVars, regVars, writers, inflight, calc, boot, motorqueue>>

(***************************************************************************)
(* BuildHAT.shutdown and BuildHAT.reset, called by the thread ctl          *)
(***************************************************************************)
CtlT == <<"ctl">>

\* shutdown(): self.fin = True; self.running = False (nothing when fin is set)
ShutdownBegin ==
  /\ ctl.pc = "ready"
  /\ IF fin
       THEN UNCHANGED <<fin, running, everStopped, ctl>>
       ELSE /\ fin' = TRUE
            /\ running' = FALSE
            /\ everStopped' = TRUE
            /\ ctl' = [op |-> "shutdown", pc |-> "join_th"]
  /\ UNCHANGED <<connections, used, vin, listWaiter, loopVars, cbVars, syncVars,
                 regVars, writers, inflight, calc, boot, motorqueue>>

\* reset(): self.running = False
ResetBegin ==
  /\ ctl.pc = "ready"
  /\ ~fin
  /\ running' = FALSE
  /\ everStopped' = TRUE
  /\ ctl' = [op |-> "reset", pc |-> "join_th"]
  /\ UNCHANGED <<connections, used, fin, vin, listWaiter, loopVars, cbVars, syncVars,
                 regVars, writers, inflight, calc, boot, motorqueue>>

\* self.th.join() returns
JoinLoop ==
  /\ ctl.pc = "join_th"
  /\ loopState \in {"exited", "crashed"}
  /\ ctl' = [ctl EXCEPT !.pc = "put"]
  /\ UNCHANGED <<connections, used, running, fin, vin, everStopped, listWaiter,
                 loopVars, cbVars, syncVars, regVars, writers, inflight, calc, boot, motorqueue>>

\* self.cbqueue.put(())
PutEmpty ==
  /\ ctl.pc = "put"
  /\ cbqueue' = Append(cbqueue, EmptyTuple)
  /\ ctl' = [ctl EXCEPT !.pc = "join_cb"]
  /\ UNCHANGED <<connections, used, running, fin, vin, everStopped, listWaiter,
                 loopVars, cbState, cbAlive, invoked, nData, enqueued, syncVars,
                 regVars, writers, inflight, calc, boot, motorqueue>>

\* self.cb.join() returns
JoinCb ==
  /\ ctl.pc = "join_cb"
  /\ cbState \in {"exited", "crashed"}
  /\ ctl' = [ctl EXCEPT !.pc = "hooks"]
  /\ UNCHANGED <<connections, used, running, fin, vin, everStopped, listWaiter,
                 loopVars, cbVars, syncVars, regVars, writers, inflight, calc, boot, motorqueue>>

\* shutdown(): the owners' hooks run, the ownership entries are cleared and
\* the final deselect command is written
ShutdownHooks ==
  /\ ctl = [op |-> "shutdown", pc |-> "hooks"]
  /\ used' = [p \in Ports |-> None]
  /\ writers' = writers \cup {CtlT}
  /\ ctl' = [ctl EXCEPT !.pc = "writing"]
  /\ UNCHANGED <<connections, running, fin, vin, everStopped, listWaiter, loopVars,
                 cbVars, syncVars, regVars, inflight, calc, boot, motorqueue>>

\* the write returns; self.ser.close()
ShutdownClose ==
  /\ ctl = [op |-> "shutdown", pc |-> "writing"]
  /\ writers' = writers \ {CtlT}
  /\ ctl' = [ctl EXCEPT !.pc = "closed"]
  /\ UNCHANGED <<connections, used, running, fin, vin, everStopped, listWaiter,
                 loopVars, cbVars, syncVars, regVars, inflight, calc, boot, motorqueue>>

\* reset(): the owners' hooks run, the HAT is reset and reflashed, reboot is
\* written, running is set, a new queue, a new dispatch worker and a new
\* reader loop (not in listing mode) are started
ResetRestart ==
  /\ ctl = [op |-> "reset", pc |-> "hooks"]
  /\ running' = TRUE
  /\ cbqueue' = <<>>
  /\ cbState' = "top"
  /\ loopState' = "running"
  /\ uselist' = FALSE
  /\ listing_status' = "NONE"
  /\ count' = 0
  /\ since_connecting' = None
  /\ ctl' = [ctl EXCEPT !.pc = "wait"]
  /\ UNCHANGED <<connections, used, fin, vin, everStopped, listWaiter, since_started,
                 listNotified, timers, line, fed, cbAlive, invoked, nData, enqueued,
                 syncVars, regVars, writers, inflight, calc, boot, motorqueue>>

(***************************************************************************)
(* BuildHAT.__init__ after the threads are started: the wait for the       *)
(* listing (serinterface.py lines 159-163)                                 *)
(***************************************************************************)
\* with self.listcond: self.listcond.wait() is entered
CtlWait ==
  /\ ctl.pc = "wait"
  /\ ctl' = [ctl EXCEPT !.pc = "waiting"]
  /\ listWaiter' = TRUE
  /\ UNCHANGED <<loopVars, connections, used, running, fin, vin, everStopped,
                 cbVars, syncVars, regVars, writers, inflight, calc, boot, motorqueue>>

\* the wait returns: self.time_when_ready = time.time()
CtlWoken ==
  /\ ctl.pc = "waiting"
  /\ ~listWaiter
  /\ ctl' = [ctl EXCEPT !.pc = "ready"]
  /\ UNCHANGED <<loopVars, connections, used, running, fin, vin, everStopped,
                 listWaiter, cbVars, syncVars, regVars, writers, inflight, calc, boot, motorqueue>>

(***************************************************************************)
(* Device (devices.py): callback registration and deletion                 *)
(***************************************************************************)
\* Device.isconnected() does not raise
IsConnected(p) ==
  /\ connections[p].connected
  /\ device[p].typeid = connections[p].typeid

\* a simple mode or a combi mode is selected
ModeSelected(p) == device[p].simplemode # -1 \/ device[p].combimode # -1

\* Device.callback(func), func not None: select(), then callit = WeakMethod(func);
\* a DeviceError of select() leaves callit as it was
SetCallback(p) ==
  /\ device[p].exists
  /\ IF IsConnected(p) /\ ModeSelected(p)
       THEN /\ connections' = [connections EXCEPT ![p].callit = Some(p)]
            /\ cbAlive' = [cbAlive EXCEPT ![p] = TRUE]
       ELSE UNCHANGED <<connections, cbAlive>>
  /\ UNCHANGED <<used, running, fin, vin, everStopped, listWaiter, ctl, loopVars,
                 cbqueue, cbState, invoked, nData, enqueued, syncVars, regVars, writers, inflight, calc, boot, motorqueue>>

\* Device.callback(None): deselect(), then callit = None
ClearCallback(p) ==
  /\ device[p].exists
  /\ IF IsConnected(p)
       THEN connections' = [connections EXCEPT ![p].callit = None]
       ELSE UNCHANGED connections
  /\ UNCHANGED <<used, running, fin, vin, everStopped, listWaiter, ctl, loopVars,
                 cbVars, syncVars, regVars, writers, inflight, calc, boot, motorqueue>>

\* Device.__del__: the port is marked free, callit is cleared, deselect() and
\* off() are written; the object and the methods bound to it are gone
DeleteDevice(p) ==
  /\ device[p].exists
  /\ devUsed[p]
  /\ devUsed' = [devUsed EXCEPT ![p] = FALSE]
  /\ connections' = [connections EXCEPT ![p].callit = None]
  /\ cbAlive' = [cbAlive EXCEPT ![p] = FALSE]
  /\ device' = [device EXCEPT ![p].exists = FALSE]
  /\ UNCHANGED <<used, running, fin, vin, everStopped, listWaiter, ctl, loopVars,
                 cbqueue, cbState, invoked, nData, enqueued, rampftr, pulseftr,
                 portftr, vinWaiters, caller, ctor, owners, writers, inflight, calc, boot, motorqueue>>

(***************************************************************************)
(* The state of a freshly constructed engine                               *)
(***************************************************************************)
NoDevice == [exists |-> FALSE, typeid |-> -1, simplemode |-> -1, combimode |-> -1]
IdleCaller == [pc |-> "idle", op |-> "none", port |-> 0, done |-> FALSE]

\* the caller's call has returned (or raised): the thread ends
Returned(c) == [pc |-> "returned", op |-> "none", port |-> 0, done |-> FALSE]

InitEngine ==
  /\ connections = [p \in Ports |-> Connection]
  /\ used = [p \in Ports |-> None]
  /\ running = TRUE
  /\ fin = FALSE
  /\ vin = None
  /\ everStopped = FALSE
  /\ since_connecting = None
  /\ since_started = 0
  /\ count = 0
  /\ listNotified = 0
  /\ timers = 0
  /\ line = Line("empty", 0, <<>>)
  /\ fed = <<>>
  /\ cbqueue = <<>>
  /\ cbAlive = [p \in Ports |-> FALSE]
  /\ invoked = <<>>
  /\ nData = 0
  /\ enqueued = <<>>
  /\ rampftr = [p \in Ports |-> <<>>]
  /\ pulseftr = [p \in Ports |-> <<>>]
  /\ portftr = [p \in Ports |-> <<>>]
  /\ vinWaiters = <<>>
  /\ caller = [t \in Callers |-> IdleCaller]
  /\ device = [p \in Ports |-> NoDevice]
  /\ writers = {}
  /\ devUsed = [p \in Ports |-> FALSE]
  /\ ctor = [t \in Callers |-> [pc |-> "idle", port |-> 0]]
  /\ owners = {}
  /\ inflight = [p \in Ports |-> <<>>]
  /\ calc = NoCalc

(***************************************************************************)
(* Caller threads: Device.get, Motor._run_positional_ramp,                 *)
(* Motor._run_for_seconds and Hat.get_vin, one statement at a time; each   *)
(* thread makes one call                                                   *)
(***************************************************************************)
Waiting(t) == caller[t].pc = "waiting" /\ ~caller[t].done

\* Device.get(): isconnected(), the mode test, then the Future is appended
\* to portftr[port] and ftr.result() is entered; no command is written
GetCall(t, p) ==
  /\ caller[t].pc = "idle"
  /\ device[p].exists
  /\ IsConnected(p)
  /\ ModeSelected(p)
  /\ Len(portftr[p]) < MaxPending
  /\ portftr' = [portftr EXCEPT ![p] = Append(@, Pending(t))]
  /\ caller' = [caller EXCEPT ![t] = [pc |-> "waiting", op |-> "get", port |-> p,
                                      done |-> FALSE]]
  /\ UNCHANGED <<loopVars, engineVars, cbVars, rampftr, pulseftr, vinWaiters, device,
                 regVars, writers, inflight, calc, boot, motorqueue>>

\* _run_positional_ramp: ftr = Future(); rampftr[port].append(ftr)
RampCall(t, p) ==
  /\ caller[t].pc = "idle"
  /\ device[p].exists
  /\ Len(rampftr[p]) < MaxPending
  /\ rampftr' = [rampftr EXCEPT ![p] = Append(@, Pending(t))]
  /\ caller' = [caller EXCEPT ![t] = [pc |-> "registered", op |-> "ramp", port |-> p,
                                      done |-> FALSE]]
  /\ UNCHANGED <<loopVars, engineVars, cbVars, pulseftr, portftr, vinWaiters, device,
                 regVars, writers, inflight, calc, boot, motorqueue>>

\* _run_for_seconds: ftr = Future(); pulseftr[port].append(ftr)
PulseCall(t, p) ==
  /\ caller[t].pc = "idle"
  /\ device[p].exists
  /\ Len(pulseftr[p]) < MaxPending
  /\ pulseftr' = [pulseftr EXCEPT ![p] = Append(@, Pending(t))]
  /\ caller' = [caller EXCEPT ![t] = [pc |-> "registered", op |-> "pulse", port |-> p,
                                      done |-> FALSE]]
  /\ UNCHANGED <<loopVars, engineVars, cbVars, rampftr, portftr, vinWaiters, device,
                 regVars, writers, inflight, calc, boot, motorqueue>>

\* self._write(cmd): isconnected() raises DeviceError (the caller leaves, its
\* Future stays in the list), or the command is written and ftr.result() is
\* entered
WriteCmd(t) ==
  /\ caller[t].pc = "registered"
  /\ LET p == caller[t].port
     IN IF IsConnected(p)
          THEN /\ caller' = [caller EXCEPT ![t].pc = "waiting"]
               /\ UNCHANGED <<rampftr, pulseftr>>
          ELSE /\ caller' = [caller EXCEPT ![t] = Returned(@)]
               /\ rampftr' = IF caller[t].op = "ramp"
                               THEN [rampftr EXCEPT ![p] = Abandon(@, t)] ELSE rampftr
               /\ pulseftr' = IF caller[t].op = "pulse"
                                THEN [pulseftr EXCEPT ![p] = Abandon(@, t)] ELSE pulseftr
  /\ UNCHANGED <<loopVars, engineVars, cbVars, portftr, vinWaiters, device, regVars,
                 writers, inflight, calc, boot, motorqueue>>

\* ftr.result() (or vincond.wait()) returns; after a ramp or a pulse the
\* motor is released with coast(), and the call returns
WaitReturn(t) ==
  /\ caller[t].pc = "waiting"
  /\ caller[t].done
  /\ caller' = [caller EXCEPT ![t] = Returned(@)]
  /\ UNCHANGED <<loopVars, engineVars, cbVars, rampftr, pulseftr, portftr, vinWaiters,
                 device, regVars, writers, inflight, calc, boot, motorqueue>>

\* get_vin(): Device._instance.write(b"vin\r")
VinCall(t) ==
  /\ caller[t].pc = "idle"
  /\ caller' = [caller EXCEPT ![t] = [pc |-> "written", op |-> "vin", port |-> 0,
                                      done |-> FALSE]]
  /\ UNCHANGED <<loopVars, engineVars, cbVars, rampftr, pulseftr, portftr, vinWaiters,
                 device, regVars, writers, inflight, calc, boot, motorqueue>>

\* get_vin(): with vincond: vincond.wait() is entered
VinWait(t) ==
  /\ caller[t].pc = "written"
  /\ vinWaiters' = Append(vinWaiters, Pending(t))
  /\ caller' = [caller EXCEPT ![t].pc = "waiting"]
  /\ UNCHANGED <<loopVars, engineVars, cbVars, rampftr, pulseftr, portftr, device,
                 regVars, writers, inflight, calc, boot, motorqueue>>

(***************************************************************************)
(* Spec: the reader loop started in listing mode (the HAT runs the         *)
(* firmware), fed port status lines, banners and chatter, while the        *)
(* constructor waits in listcond.wait() for the listing                    *)
(***************************************************************************)
ListingLines ==
  {Line("active", p, v) : p \in WirePorts, v \in ActiveIds}
    \cup {Line("passive", p, v) : p \in WirePorts, v \in PassiveIds}
    \cup {Line(k, p, <<>>) : k \in {"notconnected", "disconnected", "checksumerr",
                                    "devtimeout", "connecting", "serialcomm"},
                             p \in WirePorts}
    \cup {Line(k, 0, <<>>) : k \in {"firmware", "done", "baud", "empty"}}

Init ==
  /\ InitEngine
  /\ boot = Booted
  /\ motorqueue = NoQueue
  /\ loopState = "running"
  /\ uselist = TRUE
  /\ listing_status = "SENT"
  /\ cbState = "top"
  /\ listWaiter = TRUE
  /\ ctl = [op |-> "init", pc |-> "waiting"]

LoopListing == \E l \in ListingLines : LoopIter(l) /\ UNCHANGED line /\ UNCHANGED <<inflight, calc, boot, motorqueue>>

Next == LoopListing \/ LoopWriteEnd \/ TimerFire \/ CtlWoken

Spec == Init /\ [][Next]_vars

(***************************************************************************)
(* The engine after construction (listing done), a motor on every wire     *)
(* port with its device object constructed                                 *)
(***************************************************************************)
MotorTypeId == HexVal(<<2, 6>>)

MotorDevice == [exists |-> TRUE, typeid |-> MotorTypeId, simplemode |-> -1, combimode |-> 0]

(***************************************************************************)
(* SpecCallback: the engine has been up for longer than the start-up       *)
(* delay and a callback is registered on every wire port; data lines       *)
(* arrive, the dispatch worker runs the callbacks, a device may be         *)
(* deleted, and the application may call shutdown() or reset()             *)
(***************************************************************************)
CbPayloads == {<<Tok(1), EmptyTok, FloatTok(2)>>}

CbLines ==
  {Line("data", p, v) : p \in WirePorts, v \in CbPayloads}
    \cup {Line("empty", 0, <<>>)}

InitCallback ==
  /\ connections = [p \in Ports |-> IF p \in WirePorts
                                      THEN [Connection EXCEPT !.typeid = MotorTypeId,
                                                              !.connected = TRUE,
                                                              !.callit = Some(p)]
                                      ELSE Connection]
  /\ used = [p \in Ports |-> None]
  /\ running = TRUE
  /\ fin = FALSE
  /\ vin = None
  /\ everStopped = FALSE
  /\ since_connecting = None
  /\ since_started = DEVICE_STARTUP_DELAY + 1
  /\ count = 0
  /\ listNotified = 1
  /\ timers = 0
  /\ line = Line("empty", 0, <<>>)
  /\ fed = <<>>
  /\ cbqueue = <<>>
  /\ cbAlive = [p \in Ports |-> p \in WirePorts]
  /\ invoked = <<>>
  /\ nData = 0
  /\ enqueued = <<>>
  /\ rampftr = [p \in Ports |-> <<>>]
  /\ pulseftr = [p \in Ports |-> <<>>]
  /\ portftr = [p \in Ports |-> <<>>]
  /\ vinWaiters = <<>>
  /\ caller = [t \in Callers |-> IdleCaller]
  /\ device = [p \in Ports |-> IF p \in WirePorts THEN MotorDevice ELSE NoDevice]
  /\ writers = {}
  /\ devUsed = [p \in Ports |-> p \in WirePorts]
  /\ ctor = [t \in Callers |-> [pc |-> "idle", port |-> 0]]
  /\ owners = {}
  /\ inflight = [p \in Ports |-> <<>>]
  /\ calc = NoCalc
  /\ boot = Booted
  /\ motorqueue = NoQueue
  /\ loopState = "running"
  /\ uselist = FALSE
  /\ listing_status = "NONE"
  /\ cbState = "top"
  /\ listWaiter = FALSE
  /\ ctl = [op |-> "init", pc |-> "ready"]

LoopCallback ==
  \E l \in CbLines :
    /\ l.k = "data" => nData < MaxEvents
    /\ LoopIter(l)
    /\ UNCHANGED line
    /\ UNCHANGED <<inflight, calc, boot, motorqueue>>

NextCallback ==
  \/ LoopCallback
  \/ CbTop
  \/ CbGet
  \/ \E p \in WirePorts : DeleteDevice(p)
  \/ ShutdownBegin
  \/ ResetBegin
  \/ JoinLoop
  \/ PutEmpty
  \/ JoinCb
  \/ ShutdownHooks
  \/ ShutdownClose
  \/ ResetRestart

SpecCallback == InitCallback /\ [][NextCallback]_vars

(***************************************************************************)
(* SpecSync: the engine is up, a motor is connected on every wire port and *)
(* its device object exists; caller threads sample, ramp, pulse and read   *)
(* the supply voltage while the loop reads completion messages, samples,   *)
(* voltages and connection changes; a device may be deleted at any time    *)
(***************************************************************************)
Voltage == 8

SyncLines ==
  {Line(k, p, <<>>) : k \in {"rampdone", "pulsedone", "disconnected"}, p \in WirePorts}
    \cup {Line("data", p, v) : p \in WirePorts, v \in CbPayloads}
    \cup {Line("vin", 0, Voltage), Line("empty", 0, <<>>)}

InitSync ==
  /\ connections = [p \in Ports |-> IF p \in WirePorts
                                      THEN [Connection EXCEPT !.typeid = MotorTypeId,
                                                              !.connected = TRUE]
                                      ELSE Connection]
  /\ used = [p \in Ports |-> None]
  /\ running = TRUE
  /\ fin = FALSE
  /\ vin = None
  /\ everStopped = FALSE
  /\ since_connecting = None
  /\ since_started = DEVICE_STARTUP_DELAY + 1
  /\ count = 0
  /\ listNotified = 1
  /\ timers = 0
  /\ line = Line("empty", 0, <<>>)
  /\ fed = <<>>
  /\ cbqueue = <<>>
  /\ cbAlive = [p \in Ports |-> FALSE]
  /\ invoked = <<>>
  /\ nData = 0
  /\ enqueued = <<>>
  /\ rampftr = [p \in Ports |-> <<>>]
  /\ pulseftr = [p \in Ports |-> <<>>]
  /\ portftr = [p \in Ports |-> <<>>]
  /\ vinWaiters = <<>>
  /\ caller = [t \in Callers |-> IdleCaller]
  /\ device = [p \in Ports |-> IF p \in WirePorts THEN MotorDevice ELSE NoDevice]
  /\ writers = {}
  /\ devUsed = [p \in Ports |-> p \in WirePorts]
  /\ ctor = [t \in Callers |-> [pc |-> "idle", port |-> 0]]
  /\ owners = {}
  /\ inflight = [p \in Ports |-> <<>>]
  /\ calc = NoCalc
  /\ boot = Booted
  /\ motorqueue = NoQueue
  /\ loopState = "running"
  /\ uselist = FALSE
  /\ listing_status = "NONE"
  /\ cbState = "top"
  /\ listWaiter = FALSE
  /\ ctl = [op |-> "init", pc |-> "ready"]

\* one iteration of the loop; `line` keeps the line it read
LoopSync ==
  \E l \in SyncLines :
    /\ l.k # "empty" => Len(fed) < MaxReplies
    /\ LoopIter(l)
    /\ line' = l
    /\ UNCHANGED <<inflight, calc, boot, motorqueue>>

CallerStep(t) ==
  \/ \E p \in WirePorts : GetCall(t, p)
  \/ \E p \in WirePorts : RampCall(t, p)
  \/ \E p \in WirePorts : PulseCall(t, p)
  \/ WriteCmd(t)
  \/ WaitReturn(t)
  \/ VinCall(t)
  \/ VinWait(t)

NextSync ==
  \/ LoopSync
  \/ \E t \in Callers : CallerStep(t)
  \/ \E p \in WirePorts : DeleteDevice(p)

SpecSync == InitSync /\ [][NextSync]_vars

\* the threads of the program are scheduled fairly; nothing obliges the
\* HAT to send a line
SpecSyncFair == SpecSync /\ \A t \in Callers : WF_vars(CallerStep(t))

(***************************************************************************)
(* SpecRamp: the engine is up with a motor on every wire port; caller      *)
(* threads ramp and pulse the motors while the loop reads the completion   *)
(* messages                                                                *)
(***************************************************************************)
RampLines ==
  {Line(k, p, <<>>) : k \in {"rampdone", "pulsedone"}, p \in WirePorts}
    \cup {Line("empty", 0, <<>>)}

LoopRamp ==
  \E l \in RampLines :
    /\ l.k # "empty" => Len(fed) < MaxReplies
    /\ LoopIter(l)
    /\ line' = l
    /\ UNCHANGED <<inflight, calc, boot, motorqueue>>

MotorStep(t) ==
  \/ \E p \in WirePorts : RampCall(t, p)
  \/ \E p \in WirePorts : PulseCall(t, p)
  \/ WriteCmd(t)
  \/ WaitReturn(t)

NextRamp == LoopRamp \/ \E t \in Callers : MotorStep(t)

SpecRamp == InitSync /\ [][NextRamp]_vars

(***************************************************************************)
(* Ownership of the ports: Device.__init__ (the dictionary Device._used)   *)
(* and BuildHAT.use_device / disuse_device (the table _used, under         *)
(* _use_lock)                                                              *)
(***************************************************************************)
IdleCtor == [pc |-> "idle", port |-> 0]

\* the class of the device under construction matches what the port reports
\* Device._device_names: the class of every type id the library lists
device_names ==
  (1 :> "PassiveMotor") @@ (2 :> "PassiveMotor") @@ (8 :> "Light")
    @@ (34 :> "TiltSensor") @@ (35 :> "MotionSensor") @@ (37 :> "ColorDistanceSensor")
    @@ (61 :> "ColorSensor") @@ (62 :> "DistanceSensor") @@ (63 :> "ForceSensor")
    @@ (64 :> "Matrix") @@ (38 :> "Motor") @@ (46 :> "Motor") @@ (47 :> "Motor")
    @@ (48 :> "Motor") @@ (49 :> "Motor") @@ (65 :> "Motor") @@ (75 :> "Motor")
    @@ (76 :> "Motor")

\* the type test of Device.__init__ raises DeviceError: the type id is listed
\* under another class, or the port is empty
TypeTestRaises(cls, typeid) ==
  \/ typeid \in DOMAIN device_names /\ device_names[typeid] # cls
  \/ typeid = -1

\* the type test lets the construction of a Motor on port p go on
TypeMatches(p) == ~TypeTestRaises("Motor", connections[p].typeid)

\* Device.__init__, lines 49-58: the port is validated, "Port already used"
\* is raised when Device._used[p] is set, else self.port = p
CtorCheck(t, p) ==
  /\ ctor[t].pc \in {"idle", "failed"}
  /\ ctor' = [ctor EXCEPT ![t] = IF devUsed[p] THEN [pc |-> "failed", port |-> p]
                                 ELSE [pc |-> "checked", port |-> p]]
  /\ UNCHANGED <<loopVars, engineVars, cbVars, syncVars, devUsed, owners, writers, inflight, calc, boot, motorqueue>>

\* Device.__init__, lines 59-69: _setup(), the fields, the type test (which
\* raises DeviceError), then Device._used[p] = True. The object the type
\* test refuses keeps the attribute port that line 57 has set (hasport)
CtorFinish(t) ==
  /\ ctor[t].pc = "checked"
  /\ LET p == ctor[t].port
     IN IF TypeMatches(p)
          THEN /\ devUsed' = [devUsed EXCEPT ![p] = TRUE]
               /\ owners' = owners \cup {<<t, p>>}
               /\ device' = [device EXCEPT ![p] = [MotorDevice EXCEPT
                                                      !.typeid = connections[p].typeid]]
               /\ ctor' = [ctor EXCEPT ![t].pc = "done"]
          ELSE /\ ctor' = [ctor EXCEPT ![t] = [pc |-> "failed", port |-> p,
                                                  hasport |-> TRUE]]
               /\ UNCHANGED <<devUsed, owners, device>>
  /\ UNCHANGED <<loopVars, engineVars, cbVars, rampftr, pulseftr, portftr, vinWaiters,
                 caller, writers, inflight, calc, boot, motorqueue>>

\* Device.__del__ of the object thread t constructed
CtorRelease(t) ==
  /\ ctor[t].pc = "done"
  /\ LET p == ctor[t].port
     IN /\ owners' = owners \ {<<t, p>>}
        /\ IF devUsed[p]
             THEN /\ devUsed' = [devUsed EXCEPT ![p] = FALSE]
                  /\ connections' = [connections EXCEPT ![p].callit = None]
             ELSE UNCHANGED <<devUsed, connections>>
        /\ device' = [device EXCEPT ![p].exists = \E u \in Callers : <<u, p>> \in owners']
  /\ ctor' = [ctor EXCEPT ![t] = IdleCtor]
  /\ UNCHANGED <<loopVars, used, running, fin, vin, everStopped, listWaiter, ctl, cbVars,
                 rampftr, pulseftr, portftr, vinWaiters, caller, writers, inflight, calc, boot, motorqueue>>

\* BuildHAT.use_device(dev), under _use_lock: the entry is taken when it is
\* None, DeviceError is raised otherwise
use_device(t, p) ==
  /\ used' = IF used[p] = None THEN [used EXCEPT ![p] = Some(t)] ELSE used
  /\ UNCHANGED <<loopVars, connections, running, fin, vin, everStopped, listWaiter, ctl,
                 cbVars, syncVars, regVars, writers, inflight, calc, boot, motorqueue>>

\* BuildHAT.disuse_device(port), under _use_lock
disuse_device(p) ==
  /\ used' = [used EXCEPT ![p] = None]
  /\ UNCHANGED <<loopVars, connections, running, fin, vin, everStopped, listWaiter, ctl,
                 cbVars, syncVars, regVars, writers, inflight, calc, boot, motorqueue>>

(***************************************************************************)
(* SpecAcquire: threads construct and delete devices on the ports of a     *)
(* running engine (motors on the wire ports, nothing on the others)        *)
(***************************************************************************)
InitAcquire ==
  /\ connections = [p \in Ports |-> IF p \in WirePorts
                                      THEN [Connection EXCEPT !.typeid = MotorTypeId,
                                                              !.connected = TRUE]
                                      ELSE Connection]
  /\ used = [p \in Ports |-> None]
  /\ running = TRUE
  /\ fin = FALSE
  /\ vin = None
  /\ everStopped = FALSE
  /\ since_connecting = None
  /\ since_started = DEVICE_STARTUP_DELAY + 1
  /\ count = 0
  /\ listNotified = 1
  /\ timers = 0
  /\ line = Line("empty", 0, <<>>)
  /\ fed = <<>>
  /\ cbqueue = <<>>
  /\ cbAlive = [p \in Ports |-> FALSE]
  /\ invoked = <<>>
  /\ nData = 0
  /\ enqueued = <<>>
  /\ rampftr = [p \in Ports |-> <<>>]
  /\ pulseftr = [p \in Ports |-> <<>>]
  /\ portftr = [p \in Ports |-> <<>>]
  /\ vinWaiters = <<>>
  /\ caller = [t \in Callers |-> IdleCaller]
  /\ device = [p \in Ports |-> NoDevice]
  /\ writers = {}
  /\ devUsed = [p \in Ports |-> FALSE]
  /\ ctor = [t \in Callers |-> IdleCtor]
  /\ owners = {}
  /\ inflight = [p \in Ports |-> <<>>]
  /\ calc = NoCalc
  /\ boot = Booted
  /\ motorqueue = NoQueue
  /\ loopState = "running"
  /\ uselist = FALSE
  /\ listing_status = "NONE"
  /\ cbState = "top"
  /\ listWaiter = FALSE
  /\ ctl = [op |-> "init", pc |-> "ready"]

NextAcquire ==
  \/ \E t \in Callers, p \in Ports : CtorCheck(t, p)
  \/ \E t \in Callers : CtorFinish(t)
  \/ \E t \in Callers : CtorRelease(t)
  \/ \E t \in Callers, p \in Ports : use_device(t, p)
  \/ \E p \in Ports : disuse_device(p)

SpecAcquire == InitAcquire /\ [][NextAcquire]_vars

(***************************************************************************)
(* SpecWrite: BuildHAT.write entered and left as two steps.  Caller        *)
(* threads write device commands, the loop writes the "on" command of a    *)
(* matrix that is plugged in, shutdown() writes its final command          *)
(***************************************************************************)
\* Device._write(cmd): isconnected(), then Device._instance.write is entered
WriteEnter(t, p) ==
  /\ caller[t].pc = "idle"
  /\ device[p].exists
  /\ IsConnected(p)
  /\ writers' = writers \cup {CallerT(t)}
  /\ caller' = [caller EXCEPT ![t] = [pc |-> "writing", op |-> "write", port |-> p,
                                      done |-> FALSE]]
  /\ UNCHANGED <<loopVars, engineVars, cbVars, rampftr, pulseftr, portftr, vinWaiters,
                 device, regVars, inflight, calc, boot, motorqueue>>

\* self.ser.write(data) returns
WriteLeave(t) ==
  /\ caller[t].pc = "writing"
  /\ writers' = writers \ {CallerT(t)}
  /\ caller' = [caller EXCEPT ![t] = IdleCaller]
  /\ UNCHANGED <<loopVars, engineVars, cbVars, rampftr, pulseftr, portftr, vinWaiters,
                 device, regVars, inflight, calc, boot, motorqueue>>

WriteLines ==
  {Line("active", p, <<4, 0>>) : p \in WirePorts} \cup {Line("empty", 0, <<>>)}

LoopWrite ==
  \E l \in WriteLines :
    /\ l.k # "empty" => Len(fed) < MaxReplies
    /\ LoopIter(l)
    /\ UNCHANGED line
    /\ UNCHANGED <<inflight, calc, boot, motorqueue>>

NextWrite ==
  \/ LoopWrite
  \/ LoopWriteEnd
  \/ \E t \in Callers, p \in WirePorts : WriteEnter(t, p)
  \/ \E t \in Callers : WriteLeave(t)
  \/ CbTop
  \/ CbGet
  \/ ShutdownBegin
  \/ JoinLoop
  \/ PutEmpty
  \/ JoinCb
  \/ ShutdownHooks
  \/ ShutdownClose

SpecWrite == InitSync /\ [][NextWrite]_vars

(***************************************************************************)
(* Properties of the reader loop in listing mode                           *)
(***************************************************************************)
FourThenBanner == <<"S", "S", "S", "S", "F">>

\* C6: when the loop started in listing mode has read exactly four port
\* confirmation lines (connected to active, connected to passive, no device
\* detected, in any mix) and then the firmware banner, listcond has been
\* notified exactly once
C6_ListingCompletesOnce == (fed = FourThenBanner) => listNotified = 1

\* the four confirmations and the banner were read, ports of both kinds among
\* them, and the constructor's wait was signalled
C6_Witness ==
  /\ fed = FourThenBanner
  /\ listNotified = 1
  /\ ~uselist
  /\ \E p, q \in Ports : connections[p].connected /\ ~connections[q].connected

\* C30: during the startup listing the startup-complete condition has been
\* signalled as soon as four port confirmations have been counted, and as
\* soon as the firmware banner has been read, even with fewer than four
\* confirmations counted
C30_BannerOrFourPorts ==
  (count >= ListingPorts \/ \E i \in 1 .. Len(fed) : fed[i] = "F") => listNotified >= 1

\* C8: in the port table a typeid of -1 implies connected = False
C8_NoTypeImpliesDisconnected ==
  \A p \in Ports : connections[p].typeid = -1 => connections[p].connected = FALSE

\* a port that was reported connected and then disconnected, next to one
\* that is still connected
C8_Witness ==
  /\ Len(fed) >= 3
  /\ \E p, q \in WirePorts :
       /\ connections[p].typeid = -1 /\ ~connections[p].connected
       /\ connections[q].typeid = MatrixTypeId /\ connections[q].connected
  /\ fed[1] = "S" /\ fed[2] = "S" /\ fed[3] = "O"
  /\ count = 2

(***************************************************************************)
(* Properties of the callback dispatch                                     *)
(***************************************************************************)
SeqsOf(log) == {log[i].seq : i \in 1 .. Len(log)}

InWireOrder == \A i, j \in 1 .. Len(invoked) : i < j => invoked[i].seq < invoked[j].seq

Dropped == {i \in 1 .. Len(enqueued) :
              /\ enqueued[i].seq \notin SeqsOf(invoked)
              /\ enqueued[i].seq \notin SeqsOf(cbqueue)
              /\ cbAlive[enqueued[i].cb]}

\* C4 as stated: the callbacks run in the order the lines arrived, each event
\* once, and no event is lost, the events still queued at reset() or
\* shutdown() included: once the worker has stopped every event put on the
\* queue (for a callback that is still alive) has been run
C4_NoneLostAtShutdown ==
  /\ InWireOrder
  /\ cbState = "exited" =>
       \A i \in 1 .. Len(enqueued) :
         enqueued[i].seq \in SeqsOf(invoked) \/ ~cbAlive[enqueued[i].cb]

\* C4 as amended: the callbacks run in the order the lines arrived, each event
\* at most once and only after the loop queued it; as long as neither
\* reset() nor shutdown() has cleared running no event of a live callback is
\* lost (it has been run or is still queued)
C4_FifoAtMostOnce ==
  /\ InWireOrder
  /\ SeqsOf(invoked) \subseteq SeqsOf(enqueued)
  /\ ~everStopped => Dropped = {}

\* three events were queued, two were run in order and the third was still
\* queued when the worker stopped
C4_Witness ==
  /\ Len(enqueued) = 3
  /\ Len(invoked) = 2
  /\ cbState = "exited"
  /\ \E i \in 1 .. Len(enqueued) :
       enqueued[i].seq \notin SeqsOf(invoked) /\ cbAlive[enqueued[i].cb]

\* C5: every user callback is called by the dispatch worker, none by the
\* reader loop, which only queues (callit, newdata)
C5_OnlyWorkerCalls == \A i \in 1 .. Len(invoked) : invoked[i].by = "cb"

\* the worker has run a callback while the loop has queued a further event
C5_Witness ==
  /\ Len(invoked) >= 1
  /\ \E k \in 1 .. Len(cbqueue) : ~cbqueue[k].empty
  /\ loopState = "running"

(***************************************************************************)
(* Properties of the blocking calls                                        *)
(***************************************************************************)
Holds(q, t) == \E i \in 1 .. Len(q) : q[i].t = t

\* the completion the call of thread t waits on is in the list of its kind
Registered(t) ==
  LET c == caller[t]
  IN \/ c.op = "get" /\ Holds(portftr[c.port], t)
     \/ c.op = "ramp" /\ Holds(rampftr[c.port], t)
     \/ c.op = "pulse" /\ Holds(pulseftr[c.port], t)
     \/ c.op = "vin" /\ Holds(vinWaiters, t)

\* the triggering command of the call of thread t has been written
CommandWritten(t) == caller[t].op \in {"ramp", "pulse", "vin"}
                       /\ caller[t].pc \in {"written", "waiting"}

\* C2: a blocking wait (get(), a ramp, a pulse, get_vin()) ends even when no
\* matching line ever arrives: a caller that waits eventually gets its
\* call back (with a Timeout error)
C2_WaitsReturn ==
  \A t \in Callers : (caller[t].pc = "waiting") ~> (caller[t].pc = "returned")

\* C3: in every blocking call the pending completion is registered before
\* the triggering command is written: once the command is written the
\* completion is in its list, or has been fulfilled already
C3_RegisteredBeforeWrite ==
  \A t \in Callers : CommandWritten(t) => Registered(t) \/ caller[t].done

\* the thread woken in this step, if its call is a ramp or a pulse, was woken
\* by the line read in this step, a completion message of its kind and port
WokenByItsLine(t) ==
  (caller'[t].done /\ ~caller[t].done) =>
    /\ fed' # fed
    /\ line'.k = (IF caller[t].op = "ramp" THEN "rampdone" ELSE "pulsedone")
    /\ line'.p = caller[t].port
    /\ \A u \in Callers \ {t} : caller'[u].done = caller[u].done

\* a list of completions loses an entry only by the line of its kind and port
ShrinksByItsLine(q, q2, k, p) ==
  Len(q2) < Len(q) => fed' # fed /\ line'.k = k /\ line'.p = p /\ q2 = Tail(q)

C9_ReleaseCancelsWaits ==
  \A t \in Callers :
    Waiting(t) /\ caller[t].op \in {"get", "ramp", "pulse"} => devUsed[caller[t].port]

(***************************************************************************)
(* Properties of the ownership of ports and of the writes                  *)
(***************************************************************************)
\* C1: of the constructions of a device on one port that run concurrently
\* exactly one succeeds: at no time do two constructed devices hold the
\* same port
C1_PortExclusive ==
  \A p \in Ports : Cardinality({t \in Callers : <<t, p>> \in owners}) <= 1

\* C10: the writes to the serial link are serialized: at no time are two
\* threads inside a write of a command
C10_WritesSerialized == Cardinality(writers) <= 1

(***************************************************************************)
(* SpecShutdown: the engine has just come up (the start-up delay has not   *)
(* passed), devices announce that they connect, time passes, and the       *)
(* application calls shutdown()                                            *)
(***************************************************************************)
ShutdownLines ==
  {Line(k, p, <<>>) : k \in {"connecting", "serialcomm"}, p \in WirePorts}
    \cup {Line(k, 0, <<>>) : k \in {"baud", "empty"}}

InitShutdown ==
  /\ connections = [p \in Ports |-> IF p \in WirePorts
                                      THEN [Connection EXCEPT !.typeid = MotorTypeId,
                                                              !.connected = TRUE]
                                      ELSE Connection]
  /\ used = [p \in Ports |-> None]
  /\ running = TRUE
  /\ fin = FALSE
  /\ vin = None
  /\ everStopped = FALSE
  /\ since_connecting = None
  /\ since_started = 0
  /\ count = 0
  /\ listNotified = 1
  /\ timers = 0
  /\ line = Line("empty", 0, <<>>)
  /\ fed = <<>>
  /\ cbqueue = <<>>
  /\ cbAlive = [p \in Ports |-> FALSE]
  /\ invoked = <<>>
  /\ nData = 0
  /\ enqueued = <<>>
  /\ rampftr = [p \in Ports |-> <<>>]
  /\ pulseftr = [p \in Ports |-> <<>>]
  /\ portftr = [p \in Ports |-> <<>>]
  /\ vinWaiters = <<>>
  /\ caller = [t \in Callers |-> IdleCaller]
  /\ device = [p \in Ports |-> NoDevice]
  /\ writers = {}
  /\ devUsed = [p \in Ports |-> FALSE]
  /\ ctor = [t \in Callers |-> IdleCtor]
  /\ owners = {}
  /\ inflight = [p \in Ports |-> <<>>]
  /\ calc = NoCalc
  /\ boot = Booted
  /\ motorqueue = NoQueue
  /\ loopState = "running"
  /\ uselist = FALSE
  /\ listing_status = "NONE"
  /\ cbState = "top"
  /\ listWaiter = FALSE
  /\ ctl = [op |-> "init", pc |-> "ready"]

LoopShutdown ==
  \E l \in ShutdownLines :
    /\ l.k # "empty" => Len(fed) < MaxReplies
    /\ LoopIter(l)
    /\ UNCHANGED line
    /\ UNCHANGED <<inflight, calc, boot, motorqueue>>

NextShutdown ==
  \/ LoopShutdown
  \/ Tick
  \/ CbTop
  \/ CbGet
  \/ ShutdownBegin
  \/ JoinLoop
  \/ PutEmpty
  \/ JoinCb
  \/ ShutdownHooks
  \/ ShutdownClose

SpecShutdown == InitShutdown /\ [][NextShutdown]_vars

(***************************************************************************)
(* Properties of the exit of the reader loop                               *)
(***************************************************************************)
\* C11: the reader loop leaves its while loop only in an iteration in which
\* running is False, no device is connecting (device_is_connecting is 0), no
\* listing is in progress and more than DEVICE_STARTUP_DELAY has passed
\* since the engine was started
C11_ExitOnlyWhenAllowed ==
  [][(loopState = "running" /\ loopState' = "exited") =>
       /\ running = FALSE
       /\ since_connecting' = None
       /\ listing_status' = "NONE"
       /\ since_started > DEVICE_STARTUP_DELAY]_vars

\* the loop has left after shutdown() was called while a device was
\* connecting
C11_Witness ==
  /\ loopState = "exited"
  /\ fed # <<>>
  /\ fin
  /\ ctl.pc = "closed"

(***************************************************************************)
(* SpecLines: the engine is up and the link delivers well-formed lines,    *)
(* lines the loop does not know, and damaged lines                         *)
(***************************************************************************)
\* the port characters that appear: the wire ports, a digit above 3, a
\* character that is no digit
PortChars == WirePorts \cup {NumPorts, NonDigit}

AnyLines ==
  {Line("status", p, <<>>) : p \in PortChars}
    \cup {Line("active", p, v) : p \in PortChars, v \in {<<2, 6>>, <<NonHex>>}}
    \cup {Line("data", p, v) : p \in PortChars, v \in CbPayloads \cup {<<Tok(1), BadTok>>}}
    \cup {Line("vin", 0, Voltage)}
    \cup {Line(k, 0, <<>>) : k \in {"badvin", "short", "other", "empty"}}

LoopLines ==
  \E l \in AnyLines :
    /\ l.k # "empty" => Len(fed) < MaxEvents
    /\ LoopIter(l)
    /\ line' = l
    /\ UNCHANGED <<inflight, calc, boot, motorqueue>>

NextLines == LoopLines

SpecLines == InitSync /\ [][NextLines]_vars

(***************************************************************************)
(* Properties of the loop on damaged lines                                 *)
(***************************************************************************)
\* C12: no line read from the wire ends the reader loop: a line that is
\* unknown, cut short or damaged is ignored and the loop goes on
C12_NoLineAbortsLoop == loopState # "crashed"

(***************************************************************************)
(* SpecMode: a sensor is used as the test of the colour sensor uses it:    *)
(* mode(m), then get().  The HAT streams the samples of the mode selected  *)
(* (it switches as soon as the select command is written); a sample it     *)
(* sent before can still be on its way                                     *)
(***************************************************************************)
\* the two modes of the test and the number of datasets of each
SensorModes == {2, 5}
Datasets(md) == IF md = 2 THEN 1 ELSE 4

\* a sample of n datasets as the tokens of its data line
RECURSIVE SampleToks(_)
SampleToks(n) == IF n = 0 THEN <<>> ELSE Append(SampleToks(n - 1), Tok(n))

\* the engine is up, the start-up delay has passed, and on every wire port a
\* device object exists with the fields dev
EngineUp(dev) ==
  /\ connections = [p \in Ports |-> IF p \in WirePorts
                                      THEN [Connection EXCEPT !.typeid = dev.typeid,
                                                              !.connected = TRUE]
                                      ELSE Connection]
  /\ used = [p \in Ports |-> None]
  /\ running = TRUE
  /\ fin = FALSE
  /\ vin = None
  /\ everStopped = FALSE
  /\ since_connecting = None
  /\ since_started = DEVICE_STARTUP_DELAY + 1
  /\ count = 0
  /\ listNotified = 1
  /\ timers = 0
  /\ line = Line("empty", 0, <<>>)
  /\ fed = <<>>
  /\ cbqueue = <<>>
  /\ cbAlive = [p \in Ports |-> FALSE]
  /\ invoked = <<>>
  /\ nData = 0
  /\ enqueued = <<>>
  /\ rampftr = [p \in Ports |-> <<>>]
  /\ pulseftr = [p \in Ports |-> <<>>]
  /\ portftr = [p \in Ports |-> <<>>]
  /\ vinWaiters = <<>>
  /\ caller = [t \in Callers |-> IdleCaller]
  /\ device = [p \in Ports |-> IF p \in WirePorts THEN dev ELSE NoDevice]
  /\ writers = {}
  /\ devUsed = [p \in Ports |-> p \in WirePorts]
  /\ ctor = [t \in Callers |-> IdleCtor]
  /\ owners = {}
  /\ inflight = [p \in Ports |-> <<>>]
  /\ calc = NoCalc
  /\ boot = Booted
  /\ motorqueue = NoQueue
  /\ loopState = "running"
  /\ uselist = FALSE
  /\ listing_status = "NONE"
  /\ cbState = "top"
  /\ listWaiter = FALSE
  /\ ctl = [op |-> "init", pc |-> "ready"]

\* a colour sensor (type id 3d) that has been put in mode 5
ColorTypeId == HexVal(<<3, 13>>)
SensorDevice == [exists |-> TRUE, typeid |-> ColorTypeId, simplemode |-> 5, combimode |-> -1]

InitMode == EngineUp(SensorDevice)

GetOutstanding(p) ==
  \E t \in Callers : caller[t].op = "get" /\ caller[t].port = p /\ caller[t].pc = "waiting"

\* Device.mode(modev) with an integer: nothing when the mode is selected
\* already, else the select commands are written and _simplemode is set
SetMode(p, md) ==
  /\ device[p].exists
  /\ IsConnected(p)
  /\ ~GetOutstanding(p)
  /\ device' = IF device[p].combimode = -1 /\ device[p].simplemode = md
                 THEN device
                 ELSE [device EXCEPT ![p].combimode = -1, ![p].simplemode = md]
  /\ UNCHANGED <<loopVars, engineVars, cbVars, rampftr, pulseftr, portftr, vinWaiters,
                 caller, regVars, writers, inflight, calc, boot, motorqueue>>

\* the HAT sends a sample of the mode selected on port p
HatSample(p) ==
  /\ device[p].simplemode # -1
  /\ Len(inflight[p]) < MaxReplies
  /\ inflight' = [inflight EXCEPT ![p] = Append(@, device[p].simplemode)]
  /\ UNCHANGED <<loopVars, engineVars, cbVars, syncVars, regVars, writers, calc, boot, motorqueue>>

\* the loop reads the oldest sample on its way, or its read times out
LoopMode ==
  \/ \E p \in WirePorts :
       /\ inflight[p] # <<>>
       /\ Len(fed) < MaxReplies
       /\ LoopIter(Line("data", p, SampleToks(Datasets(Head(inflight[p])))))
       /\ line' = Line("data", p, SampleToks(Datasets(Head(inflight[p]))))
       /\ inflight' = [inflight EXCEPT ![p] = Tail(@)]
       /\ UNCHANGED <<calc, boot, motorqueue>>
  \/ /\ LoopIter(Line("empty", 0, <<>>))
     /\ UNCHANGED <<line, inflight, calc, boot, motorqueue>>

NextMode ==
  \/ LoopMode
  \/ \E p \in WirePorts : HatSample(p)
  \/ \E p \in WirePorts, md \in SensorModes : SetMode(p, md)
  \/ \E t \in Callers, p \in WirePorts : GetCall(t, p)
  \/ \E t \in Callers : WaitReturn(t)

SpecMode == InitMode /\ [][NextMode]_vars

(***************************************************************************)
(* Properties of mode() and get()                                          *)
(***************************************************************************)
\* C13: a get() that follows mode(m) returns a sample of mode m: the sample
\* that ends the wait has as many values as mode m has datasets
C13_GetReturnsModeSample ==
  [][\A t \in Callers :
       (caller[t].op = "get" /\ caller'[t].done /\ ~caller[t].done
          /\ device[caller[t].port].simplemode # -1)
       => Len(connections'[caller[t].port].data[1])
            = Datasets(device[caller[t].port].simplemode)]_vars

(***************************************************************************)
(* SpecPosition: the arithmetic of Motor._run_to_position, applied to      *)
(* every target and every absolute position a motor can report             *)
(***************************************************************************)
\* run_to_position accepts the targets -180 .. 180; the absolute position of
\* a motor is in the same range
MaxAngle == 180
Angles == (0 - MaxAngle) .. MaxAngle
\* whole turns the motor has made since its preset position
MaxTurns == 1

Abs(x) == IF x < 0 THEN 0 - x ELSE x

\* diff = (degrees - apos + 180) % 360 - 180
ShortestDiff_NoWrap(degrees, apos) == degrees - apos
ShortestDiff(degrees, apos) == ((degrees - apos + 180) % 360) - 180

\* v1 = (degrees - apos) % 360 and v2 = (apos - degrees) % 360
V1(degrees, apos) == (degrees - apos) % 360
V2(degrees, apos) == (apos - degrees) % 360

\* mul = 1; if diff > 0: mul = -1
Mul_Same(diff) == 1
Mul(diff) == IF diff > 0 THEN 0 - 1 ELSE 1

\* the other way round: mul * (v2 if abs(diff) == v1 else v1)
OtherDiff(degrees, apos) ==
  LET diff == ShortestDiff(degrees, apos)
  IN  Mul(diff) * (IF Abs(diff) = V1(degrees, apos) THEN V2(degrees, apos)
                                                      ELSE V1(degrees, apos))

\* diff = sorted([diff, other])
SortedDiff(degrees, apos) ==
  LET a == ShortestDiff(degrees, apos)
      b == OtherDiff(degrees, apos)
  IN  IF a <= b THEN <<a, b>> ELSE <<b, a>>

Directions == {"shortest", "clockwise", "anticlockwise"}

\* 360 * newpos, the end of the ramp in degrees from the preset position
NewPos(pos, apos, degrees, direction) ==
  CASE direction = "shortest" -> pos + ShortestDiff(degrees, apos)
    [] direction = "clockwise" -> pos + SortedDiff(degrees, apos)[2]
    [] direction = "anticlockwise" -> pos + SortedDiff(degrees, apos)[1]

\* what the ramp adds to the position
Delta(pos, apos, degrees, direction) == NewPos(pos, apos, degrees, direction) - pos

\* _run_to_position reads pos and apos from the sample and computes the end
\* of the ramp; the three directions are computed side by side.  One call is
\* made in a behaviour
RunToPositionCalc(degrees, apos, turns) ==
  LET pos == apos + 360 * turns
  IN  /\ calc' = [op |-> "run_to_position",
                  in |-> <<degrees, apos, pos>>,
                  out |-> <<Delta(pos, apos, degrees, "shortest"),
                            Delta(pos, apos, degrees, "clockwise"),
                            Delta(pos, apos, degrees, "anticlockwise")>>]
      /\ UNCHANGED <<loopVars, engineVars, cbVars, syncVars, regVars, writers, inflight, boot, motorqueue>>

NextPosition ==
  /\ calc.op = "none"
  /\ \E degrees \in Angles, apos \in Angles, turns \in 0 .. MaxTurns :
       RunToPositionCalc(degrees, apos, turns)

SpecPosition == InitSync /\ [][NextPosition]_vars

(***************************************************************************)
(* Properties of the positioning arithmetic                                *)
(***************************************************************************)
Congruent(d, degrees, apos) == (d - (degrees - apos)) % 360 = 0

\* C14 as stated: for the direction "shortest" the delta is in (-180, 180]
\* for every target and every absolute position in -180 .. 180
C14_ShortestAbove180Excluded ==
  calc.op = "run_to_position" => calc.out[1] > 0 - 180 /\ calc.out[1] <= 180

\* C14, amended: for the direction "shortest" the delta is in [-180, 180)
\* and is congruent to target - current modulo 360: half a turn is made
\* backwards, as -180
C14_ShortestRange ==
  calc.op = "run_to_position"
    => /\ calc.out[1] >= 0 - 180
       /\ calc.out[1] < 180
       /\ Congruent(calc.out[1], calc.in[1], calc.in[2])

C14_Witness ==
  /\ calc.op = "run_to_position"
  /\ calc.in[1] = 180
  /\ calc.in[2] = 0
  /\ calc.out[1] = 0 - 180

\* C15: for every target and every absolute position in -180 .. 180,
\* "clockwise" gives the delta in [0, 360) and "anticlockwise" the delta in
\* (-360, 0], each congruent to target - current modulo 360; from 0 to 170
\* that is 170 clockwise and -190 anticlockwise
C15_DirectedRange ==
  calc.op = "run_to_position"
    => /\ calc.out[2] >= 0 /\ calc.out[2] < 360
       /\ calc.out[3] > 0 - 360 /\ calc.out[3] <= 0
       /\ Congruent(calc.out[2], calc.in[1], calc.in[2])
       /\ Congruent(calc.out[3], calc.in[1], calc.in[2])
       /\ (calc.in[1] = 170 /\ calc.in[2] = 0
             => calc.out[2] = 170 /\ calc.out[3] = 0 - 190)

C15_Witness ==
  /\ calc.op = "run_to_position"
  /\ calc.in[1] = 170
  /\ calc.in[2] = 0
  /\ calc.out[2] = 170
  /\ calc.out[3] = 0 - 190

(***************************************************************************)
(* SpecDirection: Motor.run_to_position is called once, with any direction *)
(* and either value of blocking, on a motor of a running engine            *)
(***************************************************************************)
\* a direction that is none of the three
BadDirection == "sideways"

\* run_to_position, lines 256-267: the speed and the angle are tested (they
\* are valid here); with blocking=False the call is put in the queue of the
\* port and run_to_position returns; else _run_to_position starts with
\* self.get(), which appends its Future to portftr[port] and waits
RunToPosition(t, p, direction, blocking) ==
  /\ caller[t].pc = "idle"
  /\ calc.op = "none"
  /\ device[p].exists
  /\ IF blocking
       THEN /\ IsConnected(p)
            /\ Len(portftr[p]) < MaxPending
            /\ portftr' = [portftr EXCEPT ![p] = Append(@, Pending(t))]
            /\ caller' = [caller EXCEPT ![t] = [pc |-> "waiting", op |-> "position",
                                                port |-> p, done |-> FALSE]]
            /\ calc' = [op |-> "run_to_position", in |-> <<direction, blocking>>,
                        out |-> <<>>]
       ELSE /\ caller' = [caller EXCEPT ![t] = Returned(@)]
            /\ calc' = [op |-> "run_to_position", in |-> <<direction, blocking>>,
                        out |-> <<"queued">>]
            /\ UNCHANGED portftr
  /\ UNCHANGED <<loopVars, engineVars, cbVars, rampftr, pulseftr, vinWaiters, device,
                 regVars, writers, inflight, boot, motorqueue>>

\* _run_to_position, lines 176-201, once get() has returned: the deltas are
\* computed, then the direction is looked at: MotorError for a direction
\* that is none of the three, else _run_positional_ramp appends its Future
\* to rampftr[port]
RunToPositionGot(t) ==
  /\ caller[t].pc = "waiting"
  /\ caller[t].op = "position"
  /\ caller[t].done
  /\ LET p == caller[t].port
     IN IF calc.in[1] \in Directions
          THEN /\ Len(rampftr[p]) < MaxPending
               /\ rampftr' = [rampftr EXCEPT ![p] = Append(@, Pending(t))]
               /\ caller' = [caller EXCEPT ![t] = [pc |-> "registered", op |-> "ramp",
                                                   port |-> p, done |-> FALSE]]
               /\ calc' = [calc EXCEPT !.out = <<"ramp">>]
          ELSE /\ caller' = [caller EXCEPT ![t] = Returned(@)]
               /\ calc' = [calc EXCEPT !.out = <<"MotorError">>]
               /\ UNCHANGED rampftr
  /\ UNCHANGED <<loopVars, engineVars, cbVars, pulseftr, portftr, vinWaiters, device,
                 regVars, writers, inflight, boot, motorqueue>>

\* the sample get() waits for, the end of the ramp, or a read that times out
DirectionLines ==
  {Line("data", p, SampleToks(3)) : p \in WirePorts}
    \cup {Line("rampdone", p, <<>>) : p \in WirePorts}
    \cup {Line("empty", 0, <<>>)}

LoopDirection ==
  \E l \in DirectionLines :
    /\ l.k # "empty" => Len(fed) < MaxEvents
    /\ LoopIter(l)
    /\ line' = l
    /\ UNCHANGED <<inflight, calc, boot, motorqueue>>

NextDirection ==
  \/ LoopDirection
  \/ \E t \in Callers, p \in WirePorts, direction \in Directions \cup {BadDirection},
        blocking \in BOOLEAN : RunToPosition(t, p, direction, blocking)
  \/ \E t \in Callers : RunToPositionGot(t)
  \/ \E t \in Callers : WriteCmd(t)
  \/ \E t \in Callers : WaitReturn(t)

SpecDirection == InitSync /\ [][NextDirection]_vars

(***************************************************************************)
(* Properties of run_to_position                                           *)
(***************************************************************************)
\* C16: run_to_position with a direction that is none of shortest,
\* clockwise, anticlockwise returns MotorError to the thread that called it
\* and registers no ramp
C16_InvalidDirectionFails ==
  (/\ calc.op = "run_to_position"
   /\ calc.in[1] \notin Directions
   /\ \E t \in Callers : caller[t].pc = "returned")
    => /\ calc.out = <<"MotorError">>
       /\ \A p \in Ports : rampftr[p] = <<>>

(***************************************************************************)
(* SpecChecksum: BuildHAT.checksum, applied to byte strings long enough    *)
(* for bit 31 to be set.  A 32-bit value is kept as its two 16-bit halves, *)
(* <<high, low>>                                                           *)
(***************************************************************************)
\* the longest byte string
MaxData == 32
\* the bytes the strings are made of
SampleBytes == {0, 1, 128, 255}

\* 2^16, and 2^15, the top bit of a half
Half == 65536
TopBit == 32768

\* 0x1d872b41 as its halves 0x1d87 and 0x2b41
PolyHi == 7559
PolyLo == 11073

\* a ^ b on numbers of n bits
RECURSIVE Xor(_, _, _)
Xor(a, b, n) ==
  IF n = 0 THEN 0
  ELSE (((a % 2) + (b % 2)) % 2) + 2 * Xor(a \div 2, b \div 2, n - 1)

\* (u & 0x80000000) != 0
TopSet_Never(u) == FALSE
TopSet(u) == u[1] >= TopBit

\* (u << 1) & 0xFFFFFFFF: the mask the code applies at the end of the step
\* drops bit 32, which no later operation of the step touches
ShiftLeft(u) == <<(u[1] * 2 + (u[2] * 2) \div Half) % Half, (u[2] * 2) % Half>>

\* one turn of the loop of checksum, for the byte b
ChecksumStep(u, b) ==
  LET s == ShiftLeft(u)
      x == IF TopSet(u) THEN <<Xor(s[1], PolyHi, 16), Xor(s[2], PolyLo, 16)>> ELSE s
  IN  <<x[1], Xor(x[2], b, 16)>>

\* checksum(data), one turn of its loop at a time: calc.in holds the bytes
\* taken so far and calc.out the values u has had, u = 1 first; the checksum
\* of the bytes taken so far is the last of them
Last(s) == s[Len(s)]

\* u = 1
ChecksumBegin ==
  /\ calc.op = "none"
  /\ calc' = [op |-> "checksum", in |-> <<>>, out |-> <<<<0, 1>>>>]
  /\ UNCHANGED <<loopVars, engineVars, cbVars, syncVars, regVars, writers, inflight, boot, motorqueue>>

\* the byte strings checked are b1 b2 b1 b2 ..., of every length up to
\* MaxData
FollowsPattern(data, b) == IF Len(data) < 2 THEN TRUE ELSE b = data[Len(data) - 1]

\* the turn of the loop for the next byte, b
ChecksumTurn(b) ==
  /\ calc.op = "checksum"
  /\ Len(calc.in) < MaxData
  /\ FollowsPattern(calc.in, b)
  /\ calc' = [calc EXCEPT !.in = Append(@, b),
                          !.out = Append(@, ChecksumStep(Last(calc.out), b))]
  /\ UNCHANGED <<loopVars, engineVars, cbVars, syncVars, regVars, writers, inflight, boot, motorqueue>>

NextChecksum ==
  \/ ChecksumBegin
  \/ \E b \in SampleBytes : ChecksumTurn(b)

SpecChecksum == InitSync /\ [][NextChecksum]_vars

(***************************************************************************)
(* The shift register of the claim, bit by bit: a register is a function   *)
(* from 0 .. 31 to {0, 1}                                                  *)
(***************************************************************************)
RECURSIVE BitOf(_, _)
BitOf(x, i) == IF i = 0 THEN x % 2 ELSE BitOf(x \div 2, i - 1)

RegOf(u) == [i \in 0 .. 31 |-> IF i < 16 THEN BitOf(u[2], i) ELSE BitOf(u[1], i - 16)]
PolyReg == RegOf(<<PolyHi, PolyLo>>)
XorReg(r, s) == [i \in 0 .. 31 |-> (r[i] + s[i]) % 2]

LfsrStep(r, b) ==
  LET shifted == [i \in 0 .. 31 |-> IF i = 0 THEN 0 ELSE r[i - 1]]
      fed_back == IF r[31] = 1 THEN XorReg(shifted, PolyReg) ELSE shifted
  IN  XorReg(fed_back, RegOf(<<0, b>>))

\* C17: checksum is the 32-bit shift register with feedback: it starts at 1;
\* for each byte it shifts left by one, XORs 0x1d872b41 when bit 31 was set
\* before the shift, XORs the byte and keeps 32 bits; checksum of no bytes
\* is 1
C17_ChecksumIsLfsr ==
  calc.op = "checksum"
    => /\ calc.out[1] = <<0, 1>>
       /\ Len(calc.out) = Len(calc.in) + 1
       /\ \A i \in 1 .. Len(calc.in) :
            /\ RegOf(calc.out[i + 1]) = LfsrStep(RegOf(calc.out[i]), calc.in[i])
            /\ calc.out[i + 1][1] \in 0 .. Half - 1
            /\ calc.out[i + 1][2] \in 0 .. Half - 1

\* bit 31 was set at the start of a turn, and the turn has been made
C17_Witness ==
  /\ calc.op = "checksum"
  /\ \E i \in 1 .. Len(calc.in) : TopSet(calc.out[i])

(***************************************************************************)
(* SpecBoot: BuildHAT.__init__ from the opening of the serial port to the  *)
(* start of the two threads: _what_state_are_we_in, resethat, loadfirmware *)
(* and getprompt, one read of the serial port at a time.  The HAT may send *)
(* any line, or none, at every read                                        *)
(***************************************************************************)
\* wait_for_version_timeout, in seconds, and the number of retries after
\* which the probe gives up
wait_for_version_timeout == 5
MaxVersionRetries == 5
\* the prompts loadfirmware waits for: after clear, after the image and after
\* the signature
LoaderPrompts == 3

\* the constructor enters _what_state_are_we_in for the first time
BootStart == [pc |-> "probe", probes |-> 0, first |-> "none", state |-> "OTHER",
              status |-> "NONE", age |-> 0, retries |-> 0, chatter |-> FALSE,
              resets |-> 0, loads |-> 0, prompts |-> 0, last |-> "none",
              written |-> 0, buf |-> <<>>, got |-> <<>>]

InitBoot ==
  /\ InitEngine
  /\ boot = BootStart
  /\ motorqueue = NoQueue
  /\ loopState = "unstarted"
  /\ cbState = "unstarted"
  /\ uselist = FALSE
  /\ listing_status = "NONE"
  /\ listWaiter = FALSE
  /\ ctl = [op |-> "init", pc |-> "booting"]

\* what readline() can return during the probe: nothing within the timeout of
\* 1 s, a bare CRLF, Error, the echo of the command, the banner of the
\* firmware with the version expected or another one, the banner of the
\* bootloader, the chatter of a device that connects, or anything else
ProbeLines ==
  {"empty", "crlf", "error", "echo", "firmware", "oldfirmware", "bootloader",
   "chatter", "junk"}

\* the constructor's next statement once a probe has returned st: lines
\* 132-144 after the first probe, lines 142-144 after the second
RetryFails_Never(st) == FALSE
RetryFails(st) == st \in {"OTHER", "NEEDNEWFIRMWARE"}

AfterProbe(b, st) ==
  IF b.probes = 0
    THEN CASE st = "NEEDNEWFIRMWARE" -> "reset"
           [] st = "BOOTLOADER" -> "load"
           [] st = "OTHER" -> "reset"
           [] st = "FIRMWARE" -> "start"
    ELSE IF RetryFails(st) THEN "failed" ELSE "start"

\* _what_state_are_we_in returns st
ProbeReturn(b, st) ==
  [b EXCEPT !.pc = AfterProbe(b, st), !.probes = @ + 1, !.state = st,
            !.first = IF b.probes = 0 THEN st ELSE @,
            !.status = "NONE", !.age = 0, !.retries = 0, !.chatter = FALSE]

\* lines 242-247: the command is sent again when wait_for_version_timeout has
\* passed, and the probe gives up after more than MaxVersionRetries retries
ProbeTimeout(b) ==
  LET timed == b.status # "NONE" /\ b.age > wait_for_version_timeout
      r == IF timed THEN b.retries + 1 ELSE b.retries
      c == IF timed THEN [b EXCEPT !.status = "NONE", !.retries = r] ELSE b
  IN  IF r > MaxVersionRetries THEN ProbeReturn(c, "OTHER") ELSE c

\* lines 211-221: the state a banner stands for; the version of the
\* firmware banner is compared with the version expected
BannerState_AnyVersion(l) == IF l = "bootloader" THEN "BOOTLOADER" ELSE "FIRMWARE"
BannerState(l) ==
  CASE l = "firmware" -> "FIRMWARE"
    [] l = "oldfirmware" -> "NEEDNEWFIRMWARE"
    [] l = "bootloader" -> "BOOTLOADER"

\* one turn of the loop of _what_state_are_we_in with the line l read: the
\* command is written when none is outstanding, then the line is read (a
\* read takes a second, of the timeout or of the line) and classified
ProbeTurn(b, l) ==
  LET sent == IF b.status = "NONE" THEN [b EXCEPT !.status = "SENT", !.age = 0] ELSE b
      s == [sent EXCEPT !.last = l,
                        !.age = IF @ <= wait_for_version_timeout THEN @ + 1 ELSE @]
  IN  CASE l = "crlf" /\ s.status = "SENT" -> [s EXCEPT !.status = "CONFIRMED"]
        [] l = "error" /\ s.status = "CONFIRMED" -> [s EXCEPT !.status = "NONE"]
        [] l = "echo" /\ s.status = "SENT" -> [s EXCEPT !.status = "NONE"]
        [] l \in {"firmware", "oldfirmware", "bootloader"} -> ProbeReturn(s, BannerState(l))
        [] l = "chatter" -> ProbeTimeout([s EXCEPT !.chatter = TRUE])
        [] OTHER -> ProbeTimeout(s)

ProbeStep(l) ==
  /\ boot.pc = "probe"
  /\ boot' = ProbeTurn(boot, l)
  /\ UNCHANGED <<loopVars, engineVars, cbVars, syncVars, regVars, writers, inflight, calc,
                 motorqueue>>

\* resethat(): the two GPIO lines are driven, then loadfirmware follows
ResetHat ==
  /\ boot.pc = "reset"
  /\ boot' = [boot EXCEPT !.pc = "load", !.resets = @ + 1]
  /\ UNCHANGED <<loopVars, engineVars, cbVars, syncVars, regVars, writers, inflight, calc,
                 motorqueue>>

\* loadfirmware(), lines 279, 282-286, 289-293: the next command is written:
\* clear, then load with the image, then signature with the signature
LoaderWrite ==
  /\ boot.pc = "load"
  /\ boot.written = Len(boot.got)
  /\ boot.written < LoaderPrompts
  /\ boot' = [boot EXCEPT !.written = @ + 1]
  /\ UNCHANGED <<loopVars, engineVars, cbVars, syncVars, regVars, writers, inflight, calc,
                 motorqueue>>

\* the bootloader prints its prompt: after the command written last, or,
\* when the loader has written none yet, after its banner. buf holds the
\* prompts on their way to the loader, each with the number of commands the
\* loader had written when the prompt was printed
HatPrompt ==
  /\ boot.pc = "load"
  /\ boot.loads = 0
  /\ \A i \in 1 .. Len(boot.buf) : boot.buf[i] # boot.written
  /\ \A i \in 1 .. Len(boot.got) : boot.got[i] # boot.written
  /\ boot' = [boot EXCEPT !.buf = Append(@, boot.written)]
  /\ UNCHANGED <<loopVars, engineVars, cbVars, syncVars, regVars, writers, inflight, calc,
                 motorqueue>>

\* getprompt(), lines 297-309, called at 281, 288, 295: a line is read; the
\* loop ends with the first line that starts with the prompt, else it reads
\* on. After the third prompt loadfirmware returns, and the constructor
\* probes again when its first probe found nothing
LoaderStep(prompt) ==
  /\ boot.pc = "load"
  /\ boot.written = Len(boot.got) + 1
  /\ prompt => boot.buf # <<>>
  /\ boot' = IF ~prompt THEN boot
             ELSE LET b == [boot EXCEPT !.got = Append(@, Head(boot.buf)),
                                        !.buf = Tail(@)]
                  IN IF boot.prompts + 1 < LoaderPrompts THEN [b EXCEPT !.prompts = @ + 1]
                     ELSE [b EXCEPT !.prompts = 0, !.loads = @ + 1,
                                    !.pc = IF boot.state = "OTHER" THEN "probe" ELSE "start"]
  /\ UNCHANGED <<loopVars, engineVars, cbVars, syncVars, regVars, writers, inflight, calc,
                 motorqueue>>

\* lines 143-144: raise BuildHATError("HAT not found"); the constructor ends
\* and nothing that follows the raise is run
ConstructRaise ==
  /\ boot.pc = "failed"
  /\ ctl.pc = "booting"
  /\ ctl' = [ctl EXCEPT !.pc = "raised"]
  /\ UNCHANGED <<loopVars, connections, used, running, fin, vin, everStopped, listWaiter,
                 cbVars, syncVars, regVars, writers, inflight, calc, boot, motorqueue>>

\* lines 145-157: the callback thread and the loop thread are started; the
\* loop lists the devices when the firmware was found running. The
\* constructor has still to enter listcond.wait() (CtlWait)
ConstructStart ==
  /\ boot.pc = "start"
  /\ boot' = [boot EXCEPT !.pc = "started"]
  /\ cbState' = "top"
  /\ loopState' = "running"
  /\ uselist' = (boot.state = "FIRMWARE")
  /\ listing_status' = IF boot.state = "FIRMWARE" THEN "SENT" ELSE "NONE"
  /\ ctl' = [ctl EXCEPT !.pc = "wait"]
  /\ UNCHANGED <<count, since_connecting, since_started, listNotified, timers, line, fed,
                 connections, used, running, fin, vin, everStopped, listWaiter, cbqueue, cbAlive,
                 invoked, nData, enqueued, syncVars, regVars, writers, inflight, calc,
                 motorqueue>>

NextBoot ==
  \/ \E l \in ProbeLines : ProbeStep(l)
  \/ ResetHat
  \/ LoaderWrite
  \/ HatPrompt
  \/ \E prompt \in BOOLEAN : LoaderStep(prompt)
  \/ ConstructRaise
  \/ ConstructStart

SpecBoot == InitBoot /\ [][NextBoot]_vars

\* the thread that runs the constructor keeps running
SpecBootFair == SpecBoot /\ WF_vars(NextBoot)

(***************************************************************************)
(* Properties of the constructor                                           *)
(***************************************************************************)
\* C18: when the first probe finds nothing the constructor resets the HAT,
\* loads the firmware and probes once more, never a third time; when the
\* second probe finds nothing either the constructor fails with
\* BuildHATError and neither the loop thread nor the callback thread is
\* started
C18_OneRetryThenFatal ==
  /\ boot.probes <= 2
  /\ boot.probes = 2 => boot.first = "OTHER" /\ boot.resets = 1 /\ boot.loads = 1
  /\ (boot.first = "OTHER" /\ boot.pc \in {"start", "started", "failed"})
       => boot.probes = 2
  /\ (boot.probes = 2 /\ boot.state = "OTHER") => boot.pc = "failed"
  /\ boot.pc = "failed" => loopState = "unstarted" /\ cbState = "unstarted"

C18_Witness ==
  /\ boot.first = "OTHER"
  /\ boot.probes = 2
  /\ boot.state = "OTHER"
  /\ boot.pc = "failed"
  /\ ctl.pc = "raised"
  /\ loopState = "unstarted"
  /\ cbState = "unstarted"

\* C26: a probe returns FIRMWARE exactly when the line it read last is the
\* banner of the firmware with the version expected, NEEDNEWFIRMWARE exactly
\* when it is the banner of the firmware with another version, BOOTLOADER
\* exactly when it is the banner of the bootloader, and OTHER only when it
\* has given up: the line read last is no banner and the retries are used up
C26_StateFromBanner ==
  [][(boot.pc = "probe" /\ boot'.probes = boot.probes + 1)
       => /\ boot'.state = "FIRMWARE" <=> boot'.last = "firmware"
          /\ boot'.state = "NEEDNEWFIRMWARE" <=> boot'.last = "oldfirmware"
          /\ boot'.state = "BOOTLOADER" <=> boot'.last = "bootloader"
          /\ boot'.state = "OTHER"
               => /\ boot'.last \notin {"firmware", "oldfirmware", "bootloader"}
                  /\ boot.retries = MaxVersionRetries]_vars

\* the first probe has read the banner of a firmware of another version
C26_Witness ==
  /\ boot.probes = 1
  /\ boot.state = "NEEDNEWFIRMWARE"
  /\ boot.last = "oldfirmware"
  /\ boot.pc = "reset"

\* C27: a probe that has begun ends, whatever the HAT sends: it returns a
\* state or gives up
C27_ProbeTerminates == (boot.pc = "probe") ~> (boot.pc # "probe")

\* C28: when the first probe has returned OTHER or NEEDNEWFIRMWARE, the loop
\* thread is started only after a reset of the HAT, a run of the loader and
\* a second probe
C28_ReprobeBeforeLoop ==
  (boot.first \in {"OTHER", "NEEDNEWFIRMWARE"} /\ loopState # "unstarted")
    => /\ boot.resets = 1
       /\ boot.loads = 1
       /\ boot.probes = 2

\* C29: the load command and the image are written only after the prompt
\* that answers clear has been read, the signature command only after the
\* prompt that answers the image, and loadfirmware returns only after the
\* prompt that answers the signature: the prompt read for a command is one
\* the bootloader printed after that command had been written
C29_PromptAnswersCommand ==
  /\ boot.written >= 2 => (Len(boot.got) >= 1 /\ boot.got[1] = 1)
  /\ boot.written >= 3 => (Len(boot.got) >= 2 /\ boot.got[2] = 2)
  /\ boot.loads >= 1 => (Len(boot.got) = 3 /\ boot.got[3] = 3)

(***************************************************************************)
(* SpecRelease: threads construct and delete motors while the motors are   *)
(* unplugged and plugged in again                                          *)
(***************************************************************************)
\* Device.__del__ sets Device._used[port] = False before it writes: the
\* entry is cleared whether or not deselect() raises
DelClears_IfWritten(p) == IsConnected(p)
DelClears(p) == TRUE

\* Device.__del__ of the object thread t constructed: the entry of the port
\* is cleared, callit is cleared, then deselect() and off() are written;
\* isconnected() raises DeviceError in deselect() when the device is gone,
\* and the finalizer ends there
DelDevice(t) ==
  /\ ctor[t].pc = "done"
  /\ LET p == ctor[t].port
     IN /\ owners' = owners \ {<<t, p>>}
        /\ IF devUsed[p] /\ DelClears(p)
             THEN /\ devUsed' = [devUsed EXCEPT ![p] = FALSE]
                  /\ connections' = [connections EXCEPT ![p].callit = None]
             ELSE UNCHANGED <<devUsed, connections>>
        /\ device' = [device EXCEPT ![p].exists = \E u \in Callers : <<u, p>> \in owners']
        /\ calc' = [op |-> "del", in |-> <<t, p>>,
                    out |-> IF ~devUsed[p] THEN <<>>
                            ELSE IF IsConnected(p) THEN <<"written">>
                            ELSE <<"DeviceError">>]
  /\ ctor' = [ctor EXCEPT ![t] = IdleCtor]
  /\ UNCHANGED <<loopVars, used, running, fin, vin, everStopped, listWaiter, ctl, cbVars,
                 rampftr, pulseftr, portftr, vinWaiters, caller, writers, inflight, boot, motorqueue>>

\* the port of the test: Motor('A')
PortA == 0

\* the motor on port A is unplugged, or plugged in again
ReleaseLines ==
  {Line("disconnected", PortA, <<>>), Line("active", PortA, <<2, 6>>),
   Line("empty", 0, <<>>)}

LoopRelease ==
  \E l \in ReleaseLines :
    /\ l.k # "empty" => Len(fed) < MaxEvents
    /\ LoopIter(l)
    /\ line' = l
    /\ UNCHANGED <<inflight, calc, boot, motorqueue>>

NextRelease ==
  \/ LoopRelease
  \/ \E t \in Callers : CtorCheck(t, PortA)
  \/ \E t \in Callers : CtorFinish(t)
  \/ \E t \in Callers : DelDevice(t)

SpecRelease == InitAcquire /\ [][NextRelease]_vars

(***************************************************************************)
(* Properties of the deletion of a device                                  *)
(***************************************************************************)
\* C19: when a device that owns port P is deleted the ownership of P is
\* cleared, also when deselect() and off() fail because the device has been
\* unplugged; a construction on P then fails only when another object holds
\* P or when the port does not report a device of the class asked for
C19_ReleaseFreesPort ==
  [][\A t \in Callers :
       /\ (ctor[t].pc = "done" /\ ctor'[t].pc = "idle") => ~devUsed'[ctor[t].port]
       /\ (ctor[t].pc # "failed" /\ ctor'[t].pc = "failed")
            => \/ \E u \in Callers : <<u, ctor'[t].port>> \in owners
               \/ ~TypeMatches(ctor'[t].port)]_vars

C19_Witness ==
  /\ calc.op = "del"
  /\ calc.out = <<"DeviceError">>
  /\ ctor[calc.in[1]].pc = "done"
  /\ ctor[calc.in[1]].port = calc.in[2]
  /\ devUsed[calc.in[2]]

(***************************************************************************)
(* SpecType: threads construct a Motor on port A while a motor, a matrix,  *)
(* a device the library does not list, or nothing is plugged in            *)
(***************************************************************************)
\* the type ids reported: 26 (a motor), 40 (the matrix) and 63 (hexadecimal;
\* 99 is not in _device_names)
TypeIds == {<<2, 6>>, <<4, 0>>, <<6, 3>>}

TypeLines ==
  {Line("active", PortA, v) : v \in TypeIds}
    \cup {Line("disconnected", PortA, <<>>), Line("empty", 0, <<>>)}

LoopType ==
  \E l \in TypeLines :
    /\ l.k # "empty" => Len(fed) < MaxEvents
    /\ LoopIter(l)
    /\ line' = l
    /\ UNCHANGED <<inflight, calc, boot, motorqueue>>

NextType ==
  \/ LoopType
  \/ \E t \in Callers : CtorCheck(t, PortA)
  \/ \E t \in Callers : CtorFinish(t)
  \/ \E t \in Callers : DelDevice(t)

SpecType == InitAcquire /\ [][NextType]_vars

(***************************************************************************)
(* Properties of the type test                                             *)
(***************************************************************************)
\* the port reports a device of the class Motor
IsMotor(typeid) == typeid \in DOMAIN device_names /\ device_names[typeid] = "Motor"

\* C20: the construction of a device on a port that does not report a
\* device of the class asked for fails with DeviceError: a construction
\* succeeds only on a port that reports a device of that class (not on an
\* empty port, not on a port with a type id the library does not list)
C20_WrongTypeFails ==
  [][\A t \in Callers :
       (ctor[t].pc = "checked" /\ ctor'[t].pc = "done")
         => IsMotor(connections[ctor[t].port].typeid)]_vars

(***************************************************************************)
(* SpecSelect: threads call get() and select() on the sensor of port A,     *)
(* which has just been constructed (no mode is selected), while a mode is  *)
(* selected and the sensor is unplugged                                    *)
(***************************************************************************)
\* a colour sensor as Device.__init__ leaves it: _simplemode = -1 and
\* _combimode = -1
FreshDevice == [exists |-> TRUE, typeid |-> ColorTypeId, simplemode |-> -1, combimode |-> -1]

InitSelect == EngineUp(FreshDevice)

\* the mode test of get() and of select() raises DeviceError("Not in simple
\* or combimode")
ModeTestRaises_Never(p) == FALSE
ModeTestRaises(p) == device[p].simplemode = -1 /\ device[p].combimode = -1

\* Device.get(), whole: isconnected() and the mode test raise DeviceError;
\* else the Future is appended to portftr[port] and ftr.result() is entered.
\* calc.out holds the error raised, or what the call did
Get(t, p) ==
  /\ caller[t].pc = "idle"
  /\ device[p].exists
  /\ IF ~IsConnected(p) \/ ModeTestRaises(p)
       THEN /\ caller' = [caller EXCEPT ![t] = Returned(@)]
            /\ calc' = [op |-> "get", in |-> <<t, p>>, out |-> <<"DeviceError">>]
            /\ UNCHANGED portftr
       ELSE /\ Len(portftr[p]) < MaxPending
            /\ portftr' = [portftr EXCEPT ![p] = Append(@, Pending(t))]
            /\ caller' = [caller EXCEPT ![t] = [pc |-> "waiting", op |-> "get",
                                                port |-> p, done |-> FALSE]]
            /\ calc' = [op |-> "get", in |-> <<t, p>>, out |-> <<"registered">>]
  /\ UNCHANGED <<loopVars, engineVars, cbVars, rampftr, pulseftr, vinWaiters, device,
                 regVars, writers, inflight, boot, motorqueue>>

\* Device.select(), whole: isconnected() and the mode test raise DeviceError;
\* else the select command of the mode is written (isconnected() is called
\* once more by _write, with the same answer) and select() returns
Select(t, p) ==
  /\ caller[t].pc = "idle"
  /\ device[p].exists
  /\ caller' = [caller EXCEPT ![t] = Returned(@)]
  /\ calc' = [op |-> "select", in |-> <<t, p>>,
              out |-> IF ~IsConnected(p) \/ ModeTestRaises(p)
                        THEN <<"DeviceError">>
                        ELSE <<"returned", "select">>]
  /\ UNCHANGED <<loopVars, engineVars, cbVars, rampftr, pulseftr, portftr, vinWaiters,
                 device, regVars, writers, inflight, boot, motorqueue>>

\* a sample of a sensor, a sensor that is unplugged, or a read that times out
SelectLines ==
  {Line("data", PortA, SampleToks(1)), Line("disconnected", PortA, <<>>),
   Line("empty", 0, <<>>)}

LoopSelect ==
  \E l \in SelectLines :
    /\ l.k # "empty" => Len(fed) < MaxReplies
    /\ LoopIter(l)
    /\ line' = l
    /\ UNCHANGED <<inflight, calc, boot, motorqueue>>

NextSelect ==
  \/ LoopSelect
  \/ \E md \in SensorModes : SetMode(PortA, md)
  \/ \E t \in Callers : Get(t, PortA)
  \/ \E t \in Callers : Select(t, PortA)
  \/ \E t \in Callers : WaitReturn(t)

SpecSelect == InitSelect /\ [][NextSelect]_vars

(***************************************************************************)
(* Properties of get() and select() without a mode                         *)
(***************************************************************************)
\* C21: get() and select() on a device that has neither a simple mode nor a
\* combi mode selected fail with DeviceError: no command is written, no
\* completion is registered, and the call returns to its caller
C21_NoModeFails ==
  [][(calc' # calc /\ calc'.op \in {"get", "select"} /\ ~ModeSelected(calc'.in[2]))
       => /\ calc'.out = <<"DeviceError">>
          /\ portftr' = portftr
          /\ caller'[calc'.in[1]].pc = "returned"]_vars

C21_Witness ==
  /\ calc.op = "get"
  /\ calc.out = <<"DeviceError">>
  /\ IsConnected(calc.in[2])
  /\ ~ModeSelected(calc.in[2])
  /\ caller[calc.in[1]].pc = "returned"

(***************************************************************************)
(* SpecArgs: one thread calls the methods of the Motor of port A with      *)
(* arguments inside and outside of their ranges. The fields of the Motor   *)
(* are fields of device[PortA]; calc holds the call made last: its name,   *)
(* its arguments, how it ended and the commands it wrote.                  *)
(***************************************************************************)
\* Motor.__init__, lines 103-127: default_speed = 20, _currentspeed = 0,
\* _runmode = MotorRunmode.NONE
MotorObject ==
  [exists |-> TRUE, typeid |-> MotorTypeId, simplemode |-> -1, combimode |-> 0,
   default_speed |-> 20, currentspeed |-> 0, runmode |-> "NONE"]

InitArgs == EngineUp(MotorObject)

\* the speeds and angles passed: the ends of the ranges, their neighbours
\* outside, and values inside
SpeedArgs == {-101, -100, -1, 0, 50, 100, 101}
AngleArgs == {-181, -180, 0, 180, 181}
\* plimit and pwm values, in tenths: -1, 0, 0.5, 1, 2 and -2, -1, 0, 0.3, 1, 2
PlimitArgs == {-10, 0, 5, 10, 20}
PwmArgs == {-20, -10, 0, 3, 10, 20}

\* speed >= -100 and speed <= 100
ValidSpeed(speed) == speed >= -100 /\ speed <= 100

\* the end of a method call: the fields of the Motor after it, how it ended
\* and the commands it wrote
MotorCall(op, args, dev, end, cmds) ==
  /\ device' = [device EXCEPT ![PortA] = dev]
  /\ calc' = [op |-> op, in |-> args, out |-> <<end, cmds>>]
  /\ UNCHANGED <<loopVars, engineVars, cbVars, rampftr, pulseftr, portftr, vinWaiters,
                 caller, regVars, writers, inflight, boot, motorqueue>>

\* no blocking run is under way in the calling thread
MotorIdle == IF calc.op = "none" THEN TRUE ELSE calc.out[1] # "running"

\* set_default_speed, lines 136-144
SetDefaultSpeed(default_speed) ==
  /\ MotorIdle
  /\ IF ~ValidSpeed(default_speed)
       THEN MotorCall("set_default_speed", <<default_speed>>, device[PortA],
                      "MotorError", <<>>)
       ELSE MotorCall("set_default_speed", <<default_speed>>,
                      [device[PortA] EXCEPT !.default_speed = default_speed],
                      "returned", <<>>)

\* the assignment to _runmode a run method makes before it looks at its
\* arguments (lines 154, 236, 256, 295)
RunmodeFirst(dev, mode) == [dev EXCEPT !.runmode = mode]

\* run_for_degrees (226-245), run_to_position (247-267) and run_for_seconds
\* (287-304) with blocking=True, up to the wait for the end of the ramp or
\* of the pulse: speed is None (<<>>) or a number (<<s>>); run_to_position
\* takes speeds 0..100 and angles -180..180
RunBegin(op, degrees, speed) ==
  /\ MotorIdle
  /\ LET mode == IF op = "run_for_seconds" THEN "SECONDS" ELSE "DEGREES"
         dev == RunmodeFirst(device[PortA], mode)
         s == IF speed = None THEN dev.default_speed ELSE speed[1]
         okSpeed == IF op = "run_to_position" THEN s >= 0 /\ s <= 100 ELSE ValidSpeed(s)
         okAngle == op = "run_to_position" => (degrees >= -180 /\ degrees <= 180)
     IN IF ~okSpeed \/ ~okAngle
          THEN MotorCall(op, <<degrees, speed>>, dev, "MotorError", <<>>)
          ELSE MotorCall(op, <<degrees, speed>>, [dev EXCEPT !.runmode = mode], "running",
                         <<IF op = "run_for_seconds" THEN "pulse" ELSE "ramp">>)

\* the end of the ramp or of the pulse: coast() (release is True), then
\* _runmode = MotorRunmode.NONE (lines 172, 201, 285)
RunEnd ==
  /\ calc.op # "none"
  /\ calc.out[1] = "running"
  /\ MotorCall(calc.op, calc.in, [device[PortA] EXCEPT !.runmode = "NONE"], "returned",
               Append(calc.out[2], "coast"))

\* start, lines 306-338 (rpm is False: _speed_process returns speed)
Start(speed) ==
  /\ MotorIdle
  /\ LET dev == device[PortA]
         s == IF speed = None THEN dev.default_speed ELSE speed[1]
     IN IF dev.runmode = "FREE" /\ speed # None /\ dev.currentspeed = speed[1]
          THEN MotorCall("start", <<speed>>, dev, "returned", <<>>)
          ELSE IF dev.runmode \notin {"FREE", "NONE"}
                 THEN MotorCall("start", <<speed>>, dev, "returned", <<>>)
                 ELSE IF ~ValidSpeed(s)
                        THEN MotorCall("start", <<speed>>, dev, "MotorError", <<>>)
                        ELSE MotorCall("start", <<speed>>,
                                       [dev EXCEPT !.runmode = "FREE", !.currentspeed = s],
                                       "returned",
                                       <<IF dev.runmode = "NONE" THEN "pid set" ELSE "set">>)

\* stop, lines 340-345
Stop ==
  /\ MotorIdle
  /\ MotorCall("stop", <<>>, [device[PortA] EXCEPT !.runmode = "NONE", !.currentspeed = 0],
               "returned", <<"coast">>)

\* plimit, lines 408-416, and pwm, lines 441-449; v is in tenths
Plimit(v) ==
  /\ MotorIdle
  /\ IF ~(v >= 0 /\ v <= 10)
       THEN MotorCall("plimit", <<v>>, device[PortA], "MotorError", <<>>)
       ELSE MotorCall("plimit", <<v>>, device[PortA], "returned", <<"port_plimit">>)

Pwm(v) ==
  /\ MotorIdle
  /\ IF ~(v >= -10 /\ v <= 10)
       THEN MotorCall("pwm", <<v>>, device[PortA], "MotorError", <<>>)
       ELSE MotorCall("pwm", <<v>>, device[PortA], "returned", <<"pwm set">>)

NextArgs ==
  \/ \E s \in SpeedArgs : SetDefaultSpeed(s)
  \/ \E op \in {"run_for_degrees", "run_to_position", "run_for_seconds"},
        degrees \in AngleArgs, speed \in {None} \cup {Some(s) : s \in SpeedArgs} :
       RunBegin(op, degrees, speed)
  \/ RunEnd
  \/ \E speed \in {None} \cup {Some(s) : s \in SpeedArgs} : Start(speed)
  \/ Stop
  \/ \E v \in PlimitArgs : Plimit(v)
  \/ \E v \in PwmArgs : Pwm(v)

SpecArgs == InitArgs /\ [][NextArgs]_vars

(***************************************************************************)
(* Properties of the argument checks                                       *)
(***************************************************************************)
\* C22: a call of a Motor method that ends in MotorError for an argument
\* out of range has written no command and leaves the default speed, the
\* run mode and the current speed of the motor as they were before the call
C22_BadArgumentLeavesState ==
  [][(calc' # calc /\ calc'.out[1] = "MotorError")
       => /\ calc'.out[2] = <<>>
          /\ device' = device]_vars

(***************************************************************************)
(* SpecQueue: threads run the motor of port A with blocking=False and with *)
(* blocking=True. A command made with blocking=False is put on             *)
(* motorqueue[port]; the commands are numbered in the order they are put.  *)
(* The thread that takes the commands off the queue runs one command, then *)
(* marks it done (task_done), then takes the next.                         *)
(***************************************************************************)
\* _queue, lines 481-482, called at 242, 264, 301: Queue.put appends the
\* command and counts it as unfinished; the call returns at once
QueueCommand(t) ==
  /\ caller[t].pc = "idle"
  /\ device[PortA].exists
  /\ motorqueue.queued < MaxPending
  /\ motorqueue' = [motorqueue EXCEPT !.q = Append(@, motorqueue.queued + 1),
                                      !.queued = @ + 1,
                                      !.unfinished = @ + 1]
  /\ UNCHANGED <<loopVars, engineVars, cbVars, syncVars, regVars, writers, inflight, calc,
                 boot>>

\* the serving thread takes the oldest command off the queue and runs it
WorkerGet ==
  /\ motorqueue.cur = None
  /\ motorqueue.q # <<>>
  /\ motorqueue' = [motorqueue EXCEPT !.cur = Some(Head(motorqueue.q)), !.q = Tail(@)]
  /\ UNCHANGED <<loopVars, engineVars, cbVars, syncVars, regVars, writers, inflight, calc,
                 boot>>

\* the command has run to its end: task_done()
WorkerDone ==
  /\ motorqueue.cur # None
  /\ motorqueue' = [motorqueue EXCEPT !.cur = None,
                                      !.completed = @ \cup {motorqueue.cur[1]},
                                      !.unfinished = @ - 1]
  /\ UNCHANGED <<loopVars, engineVars, cbVars, syncVars, regVars, writers, inflight, calc,
                 boot>>

\* a call with blocking=True, or start(), or stop(), up to
\* _wait_for_nonblocking (lines 244, 266, 303, 312, 342); upto is the number
\* of commands queued before the call
BlockingCall(t) ==
  /\ caller[t].pc = "idle"
  /\ device[PortA].exists
  /\ caller' = [caller EXCEPT ![t] = [pc |-> "joining", op |-> "blocking", port |-> PortA,
                                      done |-> FALSE, upto |-> motorqueue.queued]]
  /\ UNCHANGED <<loopVars, engineVars, cbVars, rampftr, pulseftr, portftr, vinWaiters,
                 device, regVars, writers, inflight, calc, boot, motorqueue>>

\* Queue.join() returns when no command put on the queue is unfinished
JoinReturns_AtOnce(mq) == TRUE
JoinReturns(mq) == mq.unfinished = 0

\* _wait_for_nonblocking, lines 484-486, returns and the command begins
WaitForNonblocking(t) ==
  /\ caller[t].pc = "joining"
  /\ JoinReturns(motorqueue)
  /\ caller' = [caller EXCEPT ![t].pc = "running"]
  /\ UNCHANGED <<loopVars, engineVars, cbVars, rampftr, pulseftr, portftr, vinWaiters,
                 device, regVars, writers, inflight, calc, boot, motorqueue>>

\* the command made with blocking=True has run to its end
BlockingEnd(t) ==
  /\ caller[t].pc = "running"
  /\ caller' = [caller EXCEPT ![t] = Returned(@)]
  /\ UNCHANGED <<loopVars, engineVars, cbVars, rampftr, pulseftr, portftr, vinWaiters,
                 device, regVars, writers, inflight, calc, boot, motorqueue>>

NextQueue ==
  \/ \E t \in Callers : QueueCommand(t)
  \/ WorkerGet
  \/ WorkerDone
  \/ \E t \in Callers : BlockingCall(t)
  \/ \E t \in Callers : WaitForNonblocking(t)
  \/ \E t \in Callers : BlockingEnd(t)

SpecQueue == InitSync /\ [][NextQueue]_vars

PyInt(n) == <<"int", n, "">>
PyStr(s) == <<"str", 0, s>>

\* the type of a value, its int and its str
PyType(v) == v[1]
PyN(v) == v[2]
PyS(v) == v[3]

Cells == (0 .. 2) \X (0 .. 2)

\* Matrix.__init__, lines 14-22: mode(2), every pixel (0, 0)
MatrixObject ==
  [exists |-> TRUE, typeid |-> MatrixTypeId, simplemode |-> 2, combimode |-> -1,
   matrix |-> [c \in Cells |-> <<0, 0>>]]

InitMatrix == EngineUp(MatrixObject)

\* strtocolor, lines 52-82: the number of the colour, or MatrixError (None)
strtocolor(colorstr) ==
  CASE colorstr = "pink" -> Some(1)
    [] colorstr = "lilac" -> Some(2)
    [] colorstr = "blue" -> Some(3)
    [] colorstr = "cyan" -> Some(4)
    [] colorstr = "turquoise" -> Some(5)
    [] colorstr = "green" -> Some(6)
    [] colorstr = "yellow" -> Some(7)
    [] colorstr = "orange" -> Some(8)
    [] colorstr = "red" -> Some(9)
    [] colorstr = "white" -> Some(10)
    [] colorstr = "" -> Some(0)
    [] OTHER -> None

\* normalize_pixel, lines 85-105, of a tuple of two values: the pair of
\* ints, or MatrixError (None)
normalize_pixel_Any(pixel) == Some(<<PyN(pixel[1]), PyN(pixel[2])>>)
normalize_pixel(pixel) ==
  LET c == IF PyType(pixel[1]) = "str" THEN strtocolor(PyS(pixel[1])) ELSE Some(PyN(pixel[1]))
      brightness == pixel[2]
  IN IF c = None THEN None
     ELSE IF PyType(brightness) # "int" THEN None
     ELSE IF ~(PyN(brightness) >= 0 /\ PyN(brightness) <= 10) THEN None
     ELSE IF ~(c[1] >= 0 /\ c[1] <= 10) THEN None
     ELSE Some(<<c[1], PyN(brightness)>>)

\* validate_coordinate, lines 108-121, of a tuple of two ints: it raises
validate_coordinate(coord) ==
  coord[1] > 2 \/ coord[1] < 0 \/ coord[2] > 2 \/ coord[2] < 0

\* _output, lines 42-49: select(), the nine pixels, deselect()
Output(display) == IF display THEN <<"select", "write1", "deselect">> ELSE <<>>

\* set_pixels, lines 24-40: matrix is a list of rows, a row a list of pixels
SetPixels(matrix, display) ==
  /\ MotorIdle
  /\ LET badRow(x) == Len(matrix[x]) # 3
                        \/ \E y \in 1 .. 3 : normalize_pixel(matrix[x][y]) = None
     IN IF Len(matrix) # 3
          THEN MotorCall("set_pixels", <<matrix, display>>, device[PortA],
                         "MatrixError", <<>>)
          ELSE IF \E x \in 1 .. 3 : badRow(x)
                 THEN MotorCall("set_pixels", <<matrix, display>>, device[PortA],
                                "MatrixError", <<>>)
                 ELSE MotorCall("set_pixels", <<matrix, display>>,
                                [device[PortA] EXCEPT !.matrix =
                                   [c \in Cells |->
                                      normalize_pixel(matrix[c[1] + 1][c[2] + 1])[1]]],
                                "returned", Output(display))

\* set_pixel, lines 196-208
SetPixel(coord, pixel, display) ==
  /\ MotorIdle
  /\ LET color == normalize_pixel(pixel)
     IN IF color = None
          THEN MotorCall("set_pixel", <<coord, pixel, display>>, device[PortA],
                         "MatrixError", <<>>)
          ELSE IF validate_coordinate(coord)
                 THEN MotorCall("set_pixel", <<coord, pixel, display>>, device[PortA],
                                "MatrixError", <<>>)
                 ELSE MotorCall("set_pixel", <<coord, pixel, display>>,
                                [device[PortA] EXCEPT !.matrix[coord] = color[1]],
                                "returned", Output(display))

\* clear, lines 123-133: pixel is None or a pixel
Clear(pixel) ==
  /\ MotorIdle
  /\ IF pixel = None
       THEN MotorCall("clear", <<pixel>>,
                      [device[PortA] EXCEPT !.matrix = [c \in Cells |-> <<0, 0>>]],
                      "returned", Output(TRUE))
       ELSE LET color == normalize_pixel(pixel[1])
            IN IF color = None
                 THEN MotorCall("clear", <<pixel>>, device[PortA], "MatrixError", <<>>)
                 ELSE MotorCall("clear", <<pixel>>,
                                [device[PortA] EXCEPT !.matrix = [c \in Cells |-> color[1]]],
                                "returned", Output(TRUE))

\* the pixels passed: those of the tests, valid and not
GoodPixelArgs == {<<PyInt(10), PyInt(10)>>, <<PyStr("pink"), PyInt(10)>>}
BadPixelArgs ==
  {<<PyInt(11), PyInt(10)>>, <<PyInt(-1), PyInt(10)>>, <<PyInt(10), PyInt(11)>>,
   <<PyInt(10), PyInt(-1)>>, <<PyStr("gold"), PyInt(10)>>, <<PyInt(10), PyStr("test")>>}
CoordArgs == {<<0, 0>>, <<2, 2>>, <<-1, 0>>, <<0, -1>>, <<3, 0>>, <<0, 3>>}

\* the matrix of h rows of w pixels, all of them pix but the one at row x,
\* column y (counted from 1), which is odd
MatrixArg(h, w, pix, odd, x, y) ==
  [i \in 1 .. h |-> [j \in 1 .. w |-> IF i = x /\ j = y THEN odd ELSE pix]]

NextMatrix ==
  \/ \E h \in 3 .. 4, w \in 3 .. 4, odd \in GoodPixelArgs \cup BadPixelArgs,
        at \in {<<1, 1>>, <<3, 3>>}, display \in BOOLEAN :
       SetPixels(MatrixArg(h, w, <<PyInt(10), PyInt(10)>>, odd, at[1], at[2]), display)
  \/ \E coord \in CoordArgs, pixel \in GoodPixelArgs \cup BadPixelArgs, display \in BOOLEAN :
       SetPixel(coord, pixel, display)
  \/ \E pixel \in {None} \cup {Some(p) : p \in GoodPixelArgs \cup BadPixelArgs} :
       Clear(pixel)

SpecMatrix == InitMatrix /\ [][NextMatrix]_vars

(***************************************************************************)
(* Properties of the matrix                                                *)
(***************************************************************************)
KnownColours ==
  {"pink", "lilac", "blue", "cyan", "turquoise", "green", "yellow", "orange", "red", "white"}

\* a pixel whose colour is neither an int of 0..10 nor the name of a colour,
\* or whose brightness is not an int of 0..10
InvalidPixel(pixel) ==
  \/ ~ \/ PyType(pixel[1]) = "int" /\ PyN(pixel[1]) \in 0 .. 10
       \/ PyType(pixel[1]) = "str" /\ PyS(pixel[1]) \in KnownColours
  \/ ~(PyType(pixel[2]) = "int" /\ PyN(pixel[2]) \in 0 .. 10)

\* the arguments of the call are among those the methods have to refuse
InvalidCall(c) ==
  CASE c.op = "set_pixels" ->
         \/ Len(c.in[1]) # 3
         \/ \E x \in 1 .. Len(c.in[1]) :
              \/ Len(c.in[1][x]) # 3
              \/ \E y \in 1 .. Len(c.in[1][x]) : InvalidPixel(c.in[1][x][y])
    [] c.op = "set_pixel" -> c.in[1] \notin Cells \/ InvalidPixel(c.in[2])
    [] c.op = "clear" -> IF c.in[1] = None THEN FALSE ELSE InvalidPixel(c.in[1][1])
    [] OTHER -> FALSE

device_descriptions ==
  (1 :> "PassiveMotor") @@ (2 :> "PassiveMotor") @@ (8 :> "Light")
    @@ (34 :> "WeDo 2.0 Tilt Sensor") @@ (35 :> "MotionSensor")
    @@ (37 :> "Color & Distance Sensor") @@ (61 :> "Color Sensor")
    @@ (62 :> "Distance Sensor") @@ (63 :> "Force Sensor")
    @@ (64 :> "3x3 Color Light Matrix") @@ (38 :> "Medium Linear Motor")
    @@ (46 :> "Large Motor") @@ (47 :> "XL Motor")
    @@ (48 :> "Medium Angular Motor (Cyan)") @@ (49 :> "Large Angular Motor (Cyan)")
    @@ (65 :> "Small Angular Motor") @@ (75 :> "Medium Angular Motor (Grey)")
    @@ (76 :> "Large Angular Motor (Grey)")

\* one turn of the loop of Hat.get, lines 28-39: acc holds the dictionary
\* built so far, the local desc (None while it is unbound) and whether the
\* read of an unbound desc has raised
HatGetTurn(acc, i) ==
  LET typeid == connections[i].typeid
      name == IF typeid \in DOMAIN device_names THEN device_names[typeid]
              ELSE IF typeid = -1 THEN "Disconnected" ELSE "Unknown"
      desc == IF typeid \in DOMAIN device_names THEN Some(device_descriptions[typeid])
              ELSE IF typeid = -1 THEN Some("") ELSE acc.desc
  IN IF acc.raised \/ desc = None
       THEN [acc EXCEPT !.raised = TRUE]
       ELSE [devices |-> Append(acc.devices,
                                [typeid |-> typeid, connected |-> connections[i].connected,
                                 name |-> name, description |-> desc[1]]),
             desc |-> desc, raised |-> FALSE]

RECURSIVE HatGetLoop(_, _)
HatGetLoop(acc, i) == IF i = NumPorts THEN acc ELSE HatGetLoop(HatGetTurn(acc, i), i + 1)

\* Hat.get, lines 21-40: the dictionary of the four ports, in the order A,
\* B, C, D, or UnboundLocalError
HatGet ==
  /\ LET r == HatGetLoop([devices |-> <<>>, desc |-> None, raised |-> FALSE], 0)
     IN calc' = [op |-> "hat_get", in |-> <<>>,
                 out |-> IF r.raised THEN <<"UnboundLocalError">>
                         ELSE <<"returned", r.devices>>]
  /\ UNCHANGED <<loopVars, engineVars, cbVars, syncVars, regVars, writers, inflight, boot,
                 motorqueue>>

\* a device is plugged in or unplugged on a wire port, or a read times out
HatLines ==
  {Line("active", p, v) : p \in WirePorts, v \in TypeIds}
    \cup {Line("disconnected", p, <<>>) : p \in WirePorts}
    \cup {Line("empty", 0, <<>>)}

LoopHat ==
  \E l \in HatLines :
    /\ l.k # "empty" => Len(fed) < MaxEvents
    /\ LoopIter(l)
    /\ line' = l
    /\ UNCHANGED <<inflight, calc, boot, motorqueue>>

NextHat == LoopHat \/ HatGet

SpecHat == InitAcquire /\ [][NextHat]_vars

(***************************************************************************)
(* Properties of Hat.get                                                   *)
(***************************************************************************)
\* C25: Hat.get() returns an entry for each of the four ports A, B, C, D,
\* with the type id and the connected flag of that port, the name and the
\* description the table lists for that type id, Disconnected for -1 and
\* Unknown for a type id that is not listed, whose description is not the
\* description of any listed device
C25_OwnDescription ==
  [][(calc' # calc /\ calc'.op = "hat_get")
       => /\ calc'.out[1] = "returned"
          /\ Len(calc'.out[2]) = NumPorts
          /\ \A i \in Ports :
               LET e == calc'.out[2][i + 1]
                   typeid == connections[i].typeid
               IN /\ e.typeid = typeid
                  /\ e.connected = connections[i].connected
                  /\ IF typeid \in DOMAIN device_names
                       THEN e.name = device_names[typeid]
                            /\ e.description = device_descriptions[typeid]
                       ELSE IF typeid = -1
                              THEN e.name = "Disconnected" /\ e.description = ""
                              ELSE /\ e.name = "Unknown"
                                   /\ \A d \in DOMAIN device_descriptions :
                                        e.description # device_descriptions[d]]_vars

(***************************************************************************)
(* SpecMatrixOff: the Matrix of port A is cleared, turned off and deleted  *)
(* while the matrix is unplugged and plugged in again and while another    *)
(* thread calls shutdown(). calc holds the call made last on the object,   *)
(* how it ended and the commands it wrote.                                 *)
(***************************************************************************)
\* Device.off, lines 266-268: the command written
DeviceOff == <<"off">>

\* Matrix.off, lines 135-141, the override of Device.off: clear()
off_Inherited == DeviceOff
off == Output(TRUE)

\* how a call on the object that writes ends: isconnected() of the first
\* _write raises DeviceError, ser.write raises once the link is closed
WriteEnds ==
  IF ~IsConnected(PortA) THEN "DeviceError"
  ELSE IF ctl.pc = "closed" THEN "PortNotOpenError"
  ELSE "returned"

BlankMatrix == [device[PortA] EXCEPT !.matrix = [c \in Cells |-> <<0, 0>>]]

\* Matrix.off() called by the application: the stored matrix is blanked,
\* then _output() writes it
Off ==
  /\ MotorIdle
  /\ device[PortA].exists
  /\ MotorCall("off", <<>>, BlankMatrix, WriteEnds,
               IF WriteEnds = "returned" THEN off ELSE <<>>)

\* Device.__del__ of the Matrix: the port is marked free, callit is
\* cleared, deselect() is written, then self.off() runs
Del ==
  /\ MotorIdle
  /\ device[PortA].exists
  /\ devUsed[PortA]
  /\ devUsed' = [devUsed EXCEPT ![PortA] = FALSE]
  /\ connections' = [connections EXCEPT ![PortA].callit = None]
  /\ device' = [device EXCEPT ![PortA] = [BlankMatrix EXCEPT !.exists = FALSE]]
  /\ calc' = [op |-> "del", in |-> <<>>,
              out |-> <<WriteEnds,
                        IF WriteEnds = "returned" THEN <<"deselect">> \o off ELSE <<>> >>]
  /\ UNCHANGED <<loopVars, used, running, fin, vin, everStopped, listWaiter, ctl, cbVars,
                 rampftr, pulseftr, portftr, vinWaiters, caller, ctor, owners, writers,
                 inflight, boot, motorqueue>>

\* the matrix on port A is unplugged, or plugged in again
MatrixOffLines ==
  {Line("disconnected", PortA, <<>>), Line("active", PortA, <<4, 0>>),
   Line("empty", 0, <<>>)}

LoopMatrixOff ==
  \E l \in MatrixOffLines :
    /\ l.k # "empty" => Len(fed) < MaxEvents
    /\ LoopIter(l)
    /\ line' = l
    /\ UNCHANGED <<inflight, calc, boot, motorqueue>>

NextMatrixOff ==
  \/ LoopMatrixOff
  \/ LoopWriteEnd
  \/ CbTop
  \/ CbGet
  \/ ShutdownBegin
  \/ JoinLoop
  \/ PutEmpty
  \/ JoinCb
  \/ ShutdownHooks
  \/ ShutdownClose
  \/ device[PortA].exists /\ IsConnected(PortA)
       /\ \E pixel \in {None, Some(<<PyStr("pink"), PyInt(10)>>)} : Clear(pixel)
  \/ Off
  \/ Del

SpecMatrixOff == InitMatrix /\ [][NextMatrixOff]_vars

(***************************************************************************)
(* Properties of turning a matrix off                                      *)
(***************************************************************************)
\* C31: no call on a Matrix, its deletion included, writes the off command
\* of its port: off() and the finalizer write only select, the frame of the
\* stored matrix and deselect, and the stored matrix is blank by then; the
\* step of shutdown() that writes makes no call on the object
C31_MatrixNeverOff ==
  [][/\ calc' # calc
          => \A i \in 1 .. Len(calc'.out[2]) :
               calc'.out[2][i] \in {"select", "write1", "deselect"}
     /\ (calc' # calc /\ calc'.op \in {"off", "del"})
          => device'[PortA].matrix = [c \in Cells |-> <<0, 0>>]
     /\ (CtlT \in writers' /\ CtlT \notin writers) => calc' = calc]_vars

\* a Matrix whose pixels had been set was deleted while plugged in: the
\* finalizer wrote deselect and the blank frame
C31_Witness ==
  /\ calc.op = "del"
  /\ calc.out = <<"returned", <<"deselect", "select", "write1", "deselect">> >>
  /\ ~device[PortA].exists

(***************************************************************************)
(* SpecReset: a Motor is registered as the owner of port A, then a thread  *)
(* calls reset() once; after the reboot the firmware prints "Done          *)
(* initialising ports" and announces the motor again, at once, late or     *)
(* never. calc.out holds the ports whose owner had _startup() called since *)
(* the reboot.                                                             *)
(***************************************************************************)
\* lines 484-485, 493-494 and 508-509: the owner of the port of a
\* "connected to active" or "connected to passive" line has _startup() called
Startup(l) == l.k \in {"active", "passive"} /\ ~Raises(l) /\ used[l.p] # None

\* the ports with an owner
Owned == {p \in Ports : used[p] # None}

\* reset() has rebooted the HAT and has not returned
Rebooted == ctl.op = "reset" /\ ctl.pc \in {"wait", "waiting"}

ResetLines ==
  {Line("active", PortA, <<2, 6>>), Line("connecting", PortA, <<>>),
   Line("done", 0, <<>>), Line("empty", 0, <<>>)}

LoopReset ==
  \E l \in ResetLines :
    /\ l.k # "empty" => Len(fed) < MaxEvents
    /\ LoopIter(l)
    /\ line' = l
    /\ calc' = IF Startup(l) /\ Rebooted /\ \A i \in 1 .. Len(calc.out) : calc.out[i] # l.p
                 THEN [op |-> "_startup", in |-> <<>>, out |-> Append(calc.out, l.p)]
                 ELSE calc
    /\ UNCHANGED <<inflight, boot, motorqueue>>

NextReset ==
  \/ LoopReset
  \/ Tick
  \/ TimerFire
  \/ CbTop
  \/ CbGet
  \/ ctl.op = "init" /\ use_device(1, PortA)
  \/ ctl.op = "init" /\ ResetBegin
  \/ JoinLoop
  \/ PutEmpty
  \/ JoinCb
  \/ ResetRestart
  \/ CtlWait
  \/ CtlWoken

SpecReset == EngineUp(MotorDevice) /\ [][NextReset]_vars

(***************************************************************************)
(* Properties of reset()                                                   *)
(***************************************************************************)
\* C32: reset() leaves the owners of the ports as they were, and when it
\* has returned every port with an owner has had the _startup() of its
\* owner called since the reboot
C32_OwnersNotifiedByReset ==
  /\ ctl.op = "reset" => used[PortA] = Some(1) \/ used[PortA] = None
  /\ (ctl.op = "reset" /\ ctl.pc = "ready")
       => \A p \in Owned : \E i \in 1 .. Len(calc.out) : calc.out[i] = p

(***************************************************************************)
(* SpecReaders: the constructor probes the HAT, loads the firmware when it *)
(* has to and starts the threads; once it has returned a thread calls      *)
(* reset(), which joins the threads, loads the firmware again and starts   *)
(* new threads. The probe and getprompt() read the link in the thread that *)
(* constructs or resets, the loop reads it in its own thread.              *)
(***************************************************************************)
\* reset() reaches resethat() and loadfirmware(), lines 389-390, after the
\* two joins and the hooks of lines 369-382
ResetLoadAt_Unjoined == "join_th"
ResetLoadAt == "hooks"

\* reset(), lines 386-390: the buffers are dropped, the HAT is reset and
\* loadfirmware() begins
ResetLoad ==
  /\ ctl.op = "reset"
  /\ ctl.pc = ResetLoadAt
  /\ boot.pc = "started"
  /\ boot' = [boot EXCEPT !.pc = "load", !.resets = @ + 1, !.loads = 0, !.prompts = 0,
                          !.written = 0, !.buf = <<>>, !.got = <<>>, !.state = "BOOTLOADER"]
  /\ UNCHANGED <<loopVars, engineVars, cbVars, syncVars, regVars, writers, inflight, calc,
                 motorqueue>>

\* the threads that are in a call of ser.readline(): the thread of the
\* constructor or of reset() during the probe and during getprompt(), the
\* thread of the loop while it runs
Readers ==
  (IF boot.pc = "probe" \/ (boot.pc = "load" /\ boot.written = Len(boot.got) + 1)
     THEN {CtlT} ELSE {})
    \cup (IF loopState = "running" THEN {LoopT} ELSE {})

ReadersLines ==
  {Line("notconnected", 1, <<>>), Line("firmware", 0, <<>>), Line("done", 0, <<>>),
   Line("empty", 0, <<>>)}

\* the firmware answers the list command with the states of the ports and
\* its banner, and prints "Done initialising ports" after a reboot
LoopReaders ==
  \E l \in ReadersLines :
    /\ l.k \in {"notconnected", "firmware"} => uselist
    /\ l.k = "done" => ~uselist /\ timers = 0
    /\ LoopIter(l)
    /\ line' = l
    /\ UNCHANGED <<inflight, calc, boot, motorqueue>>

NextReaders ==
  \/ \E l \in {"empty", "firmware", "oldfirmware", "bootloader"} : ProbeStep(l)
  \/ ResetHat
  \/ LoaderWrite
  \/ HatPrompt
  \/ \E prompt \in BOOLEAN : LoaderStep(prompt)
  \/ ConstructRaise
  \/ ctl.pc = "booting" /\ ConstructStart
  \/ LoopReaders
  \/ loopState = "running" /\ Tick
  \/ TimerFire
  \/ CbTop
  \/ CbGet
  \/ CtlWoken
  \/ ctl.op = "init" /\ ResetBegin
  \/ JoinLoop
  \/ PutEmpty
  \/ JoinCb
  \/ ResetLoad
  \/ ctl.pc = "hooks" /\ boot.pc = "start" /\ ResetRestart
  \/ CtlWait

SpecReaders == InitBoot /\ [][NextReaders]_vars

(***************************************************************************)
(* Properties of the readers of the link                                   *)
(***************************************************************************)
\* C33: at most one thread is reading the link: the probe and getprompt()
\* read, in the constructor and in reset(), only while no loop thread runs
C33_OneReader == Cardinality(Readers) <= 1

\* reset() waits in getprompt() for the prompt that answers its load
\* command, after the loop that the constructor started has exited
C33_Witness ==
  /\ ctl.op = "reset"
  /\ boot.pc = "load"
  /\ boot.written = 2
  /\ Len(boot.got) = 1
  /\ loopState = "exited"

(***************************************************************************)
(* SpecReadersFair: every thread keeps running: the thread that constructs *)
(* enters its wait and leaves it when woken, the loop reads the lines that *)
(* arrive, a Timer that was started fires                                  *)
(***************************************************************************)
SpecReadersFair ==
  /\ SpecReaders
  /\ WF_vars(CtlWait)
  /\ WF_vars(CtlWoken)
  /\ WF_vars(LoopReaders)
  /\ WF_vars(TimerFire)

\* C34: once the loop has signalled that the start-up is complete, also
\* when it does so before the constructor waits on listcond, the
\* constructor returns
C34_WaitCannotMiss ==
  (ctl.op = "init" /\ listNotified >= 1) ~> (ctl.pc = "ready" \/ ctl.op = "reset")

(***************************************************************************)
(* SpecStop: a Motor owns port A; a thread calls shutdown() or reset()     *)
(* while the motor announces that it connects, stalls or comes up, and     *)
(* while the HAT prints "Done initialising ports" or does not. In          *)
(* SpecStopFair every thread keeps running, time passes and a Timer that   *)
(* was started fires.                                                      *)
(***************************************************************************)
NextStop ==
  \/ LoopReset
  \/ Tick
  \/ TimerFire
  \/ CbTop
  \/ CbGet
  \/ ctl.op = "init" /\ use_device(1, PortA)
  \/ ctl.op = "init" /\ ResetBegin
  \/ ctl.op = "init" /\ ShutdownBegin
  \/ JoinLoop
  \/ PutEmpty
  \/ JoinCb
  \/ ResetRestart
  \/ CtlWait
  \/ CtlWoken
  \/ ShutdownHooks
  \/ ShutdownClose

SpecStop == EngineUp(MotorDevice) /\ [][NextStop]_vars

SpecStopFair ==
  /\ SpecStop
  /\ WF_vars(LoopReset) /\ WF_vars(Tick) /\ WF_vars(TimerFire)
  /\ WF_vars(CbTop) /\ WF_vars(CbGet)
  /\ WF_vars(JoinLoop) /\ WF_vars(PutEmpty) /\ WF_vars(JoinCb)
  /\ WF_vars(ResetRestart) /\ WF_vars(CtlWait) /\ WF_vars(CtlWoken)
  /\ WF_vars(ShutdownHooks) /\ WF_vars(ShutdownClose)

\* shutdown() or reset() has cleared running and waits for the loop
StopAsked == ctl.op \in {"shutdown", "reset"} /\ ctl.pc = "join_th"

\* C35: once shutdown() or reset() has cleared running, the loop exits
\* and the call returns, whatever the HAT sends
C35_StopReturns ==
  /\ StopAsked ~> (loopState \in {"exited", "crashed"})
  /\ StopAsked ~> (ctl.pc \in {"closed", "ready"})

(***************************************************************************)
(* SpecDuration: one call of run_for_degrees, run_for_rotations or         *)
(* run_to_position with a speed inside or just outside of the range the    *)
(* method accepts; calc holds the call, how it ended and the duration of   *)
(* the ramp in milliseconds.                                               *)
(***************************************************************************)
\* the test of the speed: lines 158-159 and 239-240 (-100..100), lines
\* 259-260 (0..100)
SpeedAccepted(op, speed) ==
  IF op = "run_to_position" THEN speed >= 0 /\ speed <= 100
  ELSE speed >= -100 /\ speed <= 100

\* _run_positional_ramp, lines 213-214, for a ramp of delta degrees:
\* speed *= 0.05; dur = abs((newpos - pos) / speed), newpos - pos being
\* delta / 360 rotations. The division raises ZeroDivisionError when speed
\* is 0; else the duration is |delta| / (18 * |speed|) seconds, given here
\* in whole milliseconds
RampDuration(delta, speed) ==
  IF speed = 0 THEN [end |-> "ZeroDivisionError", dur |-> -1]
  ELSE [end |-> "written", dur |-> (1000 * Abs(delta)) \div (18 * Abs(speed))]

\* the degrees the ramp adds: _run_for_degrees, lines 164-169 (the sign of
\* the speed gives the direction), _run_to_position, lines 176-183 (the
\* shortest way from the absolute position pos)
RampDelta(op, degrees, speed, pos) ==
  IF op = "run_to_position" THEN Delta(pos, pos, degrees, "shortest")
  ELSE IF speed < 0 THEN 0 - degrees ELSE degrees

\* run_for_degrees, run_for_rotations (which passes int(rotations * 360)
\* degrees on) and run_to_position, called with blocking=True on an idle
\* motor at the position pos
RunCalc(op, degrees, speed, pos) ==
  /\ calc' = [op |-> op, in |-> <<degrees, speed, pos>>,
              out |-> IF ~SpeedAccepted(op, speed) THEN <<"MotorError", -1>>
                      ELSE LET r == RampDuration(RampDelta(op, degrees, speed, pos),
                                                 IF op = "run_to_position" THEN speed
                                                 ELSE Abs(speed))
                           IN <<r.end, r.dur>>]
  /\ UNCHANGED <<loopVars, engineVars, cbVars, syncVars, regVars, writers, inflight, boot,
                 motorqueue>>

DurationSpeedArgs == {-101, -100, -1, 0, 1, 50, 100, 101}
DurationDegreeArgs == {-180, -90, 0, 90, 180}

NextDuration ==
  /\ calc.op = "none"
  /\ \E op \in {"run_for_degrees", "run_for_rotations", "run_to_position"},
        degrees \in DurationDegreeArgs, speed \in DurationSpeedArgs, pos \in {0, 90} :
       RunCalc(op, degrees, speed, pos)

SpecDuration == InitSync /\ [][NextDuration]_vars

(***************************************************************************)
(* Properties of the duration of a ramp                                    *)
(***************************************************************************)
\* C36: for every speed that the test of the method accepts the duration
\* of the ramp is defined and not negative, and the set ramp command is
\* written: the call does not end in an arithmetic error
C36_DurationDefined ==
  (calc.op # "none" /\ SpeedAccepted(calc.op, calc.in[2]))
    => calc.out[1] = "written" /\ calc.out[2] >= 0

(***************************************************************************)
(* SpecUnregister: callbacks are registered on the wire ports; samples     *)
(* arrive and are queued while the application calls callback(None) or     *)
(* deletes the device, and the dispatch worker serves the queue.           *)
(***************************************************************************)
NextUnregister ==
  \/ LoopCallback
  \/ CbTop
  \/ CbGet
  \/ \E p \in WirePorts : ClearCallback(p)
  \/ \E p \in WirePorts : DeleteDevice(p)

SpecUnregister == InitCallback /\ [][NextUnregister]_vars

\* the port whose callback was queued with the sample numbered seq
PortOfSample(seq) ==
  enqueued[CHOOSE i \in 1 .. Len(enqueued) : enqueued[i].seq = seq].cb

(***************************************************************************)
(* Properties of the removal of a callback                                 *)
(***************************************************************************)
\* C37: a callback is invoked only while it is registered and its device
\* exists: once callback(None) has returned or the device is deleted, the
\* samples still in the queue of the dispatch worker invoke nothing
C37_NoCallAfterUnregister ==
  [][\A i \in (Len(invoked) + 1) .. Len(invoked') :
       LET p == PortOfSample(invoked'[i].seq)
       IN connections[p].callit # None /\ device[p].exists]_vars

(***************************************************************************)
(* SpecModeSwitch: one thread calls mode() of the colour sensor of port A  *)
(* with an integer or with a list (one list is used, so _modestr is the    *)
(* same whenever a combi mode is selected) while the sensor is unplugged   *)
(* and plugged in again. calc holds the call made last and how it ended;   *)
(* "writing" stands for a call that has its last write still to make.      *)
(***************************************************************************)
SimpleArg(n) == [list |-> FALSE, n |-> n]
CombiArg == [list |-> TRUE, n |-> 0]

\* no call of mode() is under way
ModeIdle == IF calc.op = "none" THEN TRUE ELSE calc.out[1] # "writing"

\* mode(modev) up to its last write. With a list, lines 219-227: nothing
\* when the combi mode is selected already, else select is written and
\* _combimode = 0 is set. With an integer, lines 236-243: nothing when the
\* mode is selected already, else the combi mode is removed, select is
\* written and _combimode = -1, _simplemode = modev are set. The
\* isconnected() of line 219 or of the first _write raises DeviceError
ModeBegin(modev) ==
  /\ ModeIdle
  /\ device[PortA].exists
  /\ LET d == device[PortA]
     IN IF ~IsConnected(PortA)
          THEN MotorCall("mode", <<modev>>, d, "DeviceError", <<>>)
          ELSE IF modev.list
            THEN IF d.simplemode = -1 /\ d.combimode = 0
                   THEN MotorCall("mode", <<modev>>, d, "returned", <<>>)
                   ELSE MotorCall("mode", <<modev>>, [d EXCEPT !.combimode = 0],
                                  "writing", <<"select">>)
            ELSE IF d.combimode = -1 /\ d.simplemode = modev.n
                   THEN MotorCall("mode", <<modev>>, d, "returned", <<>>)
                   ELSE MotorCall("mode", <<modev>>,
                                  [d EXCEPT !.combimode = -1, !.simplemode = modev.n],
                                  "writing",
                                  IF d.combimode # -1 THEN <<"combi", "select">>
                                  ELSE <<"select">>)

\* the last write of mode(): line 228 and then _simplemode = -1 (line 231),
\* or line 244; isconnected() in _write raises DeviceError when the sensor
\* has been unplugged since, and the call ends there
ModeEnd ==
  /\ calc.op = "mode"
  /\ calc.out[1] = "writing"
  /\ IF IsConnected(PortA)
       THEN MotorCall("mode", calc.in,
                      IF calc.in[1].list THEN [device[PortA] EXCEPT !.simplemode = -1]
                      ELSE device[PortA],
                      "returned", Append(calc.out[2], "select"))
       ELSE MotorCall("mode", calc.in, device[PortA], "DeviceError", calc.out[2])

\* the sensor on port A is unplugged, or plugged in again
ModeSwitchLines ==
  {Line("disconnected", PortA, <<>>), Line("active", PortA, <<3, 13>>),
   Line("empty", 0, <<>>)}

LoopModeSwitch ==
  \E l \in ModeSwitchLines :
    /\ l.k # "empty" => Len(fed) < MaxEvents
    /\ LoopIter(l)
    /\ line' = l
    /\ UNCHANGED <<inflight, calc, boot, motorqueue>>

NextModeSwitch ==
  \/ LoopModeSwitch
  \/ \E modev \in {SimpleArg(0), SimpleArg(5), CombiArg} : ModeBegin(modev)
  \/ ModeEnd

SpecModeSwitch == InitMode /\ [][NextModeSwitch]_vars

(***************************************************************************)
(* Properties of the selected mode                                         *)
(***************************************************************************)
\* C38: whenever no call of mode() is under way, at most one of the simple
\* mode and the combi mode is selected, also after a call that ended in
\* DeviceError
C38_OneModeSelected ==
  ModeIdle => ~(device[PortA].simplemode # -1 /\ device[PortA].combimode # -1)

(***************************************************************************)
(* SpecHalfBuilt: threads construct and delete a Motor on port A while the *)
(* port reports a motor, another device or nothing; the object of a        *)
(* construction that failed is finalized at some later time                *)
(***************************************************************************)
\* the object of the failed construction of thread t has the attribute
\* port: the construction got past line 57
HasPort(t) == ctor[t].pc = "failed" /\ "hasport" \in DOMAIN ctor[t]

\* Device.__del__, lines 93-99, of the object of a construction that
\* failed: nothing without the attribute port; else the entry of the port
\* is looked at, whoever has set it
DelHalfBuilt(t) ==
  /\ ctor[t].pc = "failed"
  /\ LET p == ctor[t].port
     IN IF HasPort(t) /\ devUsed[p]
          THEN /\ devUsed' = [devUsed EXCEPT ![p] = FALSE]
               /\ connections' = [connections EXCEPT ![p].callit = None]
               /\ calc' = [op |-> "del", in |-> <<t, p>>,
                           out |-> IF IsConnected(p) THEN <<"written">>
                                   ELSE <<"DeviceError">>]
          ELSE UNCHANGED <<devUsed, connections, calc>>
  /\ ctor' = [ctor EXCEPT ![t] = IdleCtor]
  /\ UNCHANGED <<loopVars, used, running, fin, vin, everStopped, listWaiter, ctl, cbVars,
                 syncVars, owners, writers, inflight, boot, motorqueue>>

NextHalfBuilt ==
  \/ LoopType
  \/ \E t \in Callers : CtorCheck(t, PortA)
  \/ \E t \in Callers : CtorFinish(t)
  \/ \E t \in Callers : DelDevice(t)
  \/ \E t \in Callers : DelHalfBuilt(t)

SpecHalfBuilt == InitAcquire /\ [][NextHalfBuilt]_vars

(***************************************************************************)
(* Properties of a construction that fails                                 *)
(***************************************************************************)
\* C39: a construction that fails, and the finalizer of the object it
\* leaves, change no entry of the table of the ports in use
C39_FailedCtorKeepsTable ==
  [][\A t \in Callers :
       (\/ ctor[t].pc # "failed" /\ ctor'[t].pc = "failed"
        \/ ctor[t].pc = "failed" /\ ctor'[t].pc = "idle")
         => devUsed' = devUsed /\ owners' = owners]_vars

(***************************************************************************)
(* SpecShutdownTwice: shutdown() is called, and called again by other      *)
(* threads (Hat._close, the finalizer that Device._setup registers)        *)
(***************************************************************************)
\* shutdown(), line 417: a call that finds fin not set runs the body
ShutdownRuns_Always(f) == TRUE

ShutdownRuns(f) == ~f

\* a call of shutdown() by thread t that begins after another call has set
\* fin: the body (running = False, the hooks, the ownership entries, the
\* final write, the close) runs only when the test of line 417 lets it
ShutdownAgain(t) ==
  /\ fin
  /\ caller[t].pc = "idle"
  /\ LET runs == ShutdownRuns(fin) IN
       /\ running' = IF runs THEN FALSE ELSE running
       /\ used' = IF runs THEN [p \in Ports |-> None] ELSE used
       /\ writers' = IF runs THEN writers \cup {CallerT(t)} ELSE writers
  /\ caller' = [caller EXCEPT ![t] = [Returned(@) EXCEPT !.op = "shutdown"]]
  /\ UNCHANGED <<loopVars, connections, fin, vin, everStopped, listWaiter, ctl,
                 cbVars, rampftr, pulseftr, portftr, vinWaiters, device, regVars,
                 inflight, calc, boot, motorqueue>>

NextShutdownTwice ==
  \/ LoopShutdown
  \/ Tick
  \/ CbTop
  \/ CbGet
  \/ ctl.op = "init" /\ used[PortA] = None /\ use_device(1, PortA)
  \/ ShutdownBegin
  \/ JoinLoop
  \/ PutEmpty
  \/ JoinCb
  \/ ShutdownHooks
  \/ ShutdownClose
  \/ \E t \in Callers : ShutdownAgain(t)

SpecShutdownTwice == InitShutdown /\ [][NextShutdownTwice]_vars

\* C40: shutdown() is idempotent: a call made after fin is set changes
\* nothing but the caller's own position (no thread state, no ownership
\* entry, no write, no change of the link), and when the first call has
\* closed the link both threads have ended, running is False and all four
\* ownership entries are None
C40_ShutdownIdempotent ==
  [][/\ \A t \in Callers :
          (caller[t].pc = "idle" /\ caller'[t].op = "shutdown")
            => UNCHANGED <<loopVars, engineVars, cbVars, regVars, writers,
                           inflight, calc, boot, motorqueue, device>>
     /\ ctl'.pc = "closed"
          => /\ loopState' \in {"exited", "crashed"}
             /\ cbState' \in {"exited", "crashed"}
             /\ ~running'
             /\ used' = [p \in Ports |-> None]
             /\ CtlT \notin writers']_vars

\* a later call has returned and the first call has closed the link, the
\* loop having read lines
C40_Witness ==
  /\ ctl.pc = "closed"
  /\ \E t \in Callers : caller[t].op = "shutdown"
  /\ fed # <<>>

=============================================================================
